---- MODULE Spec2Model ----
(***************************************************************************)
(* State-machine model of the MBTA multi-agent orchestrators:              *)
(*   - the LLM-routed orchestrator                                         *)
(*       src/mbta/src/exchange_agent/stategraph_orchestrator.py            *)
(*   - the keyword-routed orchestrator                                     *)
(*       src/mbta_agetcy/stategraph_orchestrator.py                        *)
(*                                                                         *)
(* Python strings on which the code does substring tests are sequences of  *)
(* one-character strings, so that `w in s` is computed, not assumed.       *)
(* Labels that are only compared for equality (intents, graph node names,  *)
(* outcome tags) are TLA+ strings.                                         *)
(***************************************************************************)
EXTENDS Integers, Sequences, FiniteSets, TLC

VARIABLES
    now,              \* wall clock, in minutes (datetime.now())
    discovery_cache,  \* _discovery_cache: agent name -> (descriptor, time)
    pc,               \* graph node the turn is in ("idle" before the turn)
    step,             \* position inside the node: "run", "lookup", "post", "route"
    status,           \* "idle", "running", "returned", "raised", "cancelled"
    error,            \* exception that left process_message ("" when none)
    state,            \* the AgentState dict flowing through the graph
    call,             \* locals of the call_agent_api / discover_agent in flight
    visited,          \* nodes entered in this turn, in order
    posts,            \* requests POSTed to agents in this turn, in order
    steps_done,       \* agent steps that ended in this turn: node -> "ok"/"failed"
    returned,         \* the dict process_message returned
    impl,             \* which orchestrator this process runs: "llm" or "keyword"
    history,          \* the last two discover_agent calls for one watched name
    llm_reply,        \* what the chat completion gave classify_with_llm in this turn
    parked,           \* the other task of the event loop, suspended at an await
    registry_agents,  \* registry server: the documents of its agents collection
    registry_reply,   \* registry server: the last search and what it returned
    agent_id_index,   \* registry server: the index on agent_id ("none" before start-up)
    registry_result,  \* registry server: the last register/get/update/delete and its outcome
    tool_loop         \* example agents: the frame of process_message and its tool-calling loop

vars == <<now, discovery_cache, pc, step, status, error, state, call,
          visited, posts, steps_done, returned, impl, history,
          llm_reply, parked, registry_agents, registry_reply,
          agent_id_index, registry_result, tool_loop>>

-----------------------------------------------------------------------------
(* Bounds of the model *)

\* longest agents_needed list the LLM reply is given
MaxSeqLen == 3
\* last minute the clock reaches
MaxTime == 5
\* most pieces a message given to the keyword classifier is made of
MaxWords == 3
\* largest max_iterations an example agent is called with
MaxIterations == 3
\* most content blocks in a reply of the model
MaxBlocks == 2

-----------------------------------------------------------------------------
(* Strings *)

s_mbta_alerts == <<"m","b","t","a","-","a","l","e","r","t","s">>
s_mbta_stops == <<"m","b","t","a","-","s","t","o","p","s">>
s_mbta_route_planner ==
    <<"m","b","t","a","-","r","o","u","t","e","-","p","l","a","n","n","e","r">>
s_alerts == <<"a","l","e","r","t","s">>
s_stops == <<"s","t","o","p","s">>
s_planner == <<"p","l","a","n","n","e","r">>
s_route == <<"r","o","u","t","e">>
s_trip_planning == <<"t","r","i","p","-","p","l","a","n","n","i","n","g">>
s_weather == <<"w","e","a","t","h","e","r">>

\* Python `needle in hay` for two strings
Contains(hay, needle) ==
    \E i \in 0..(Len(hay) - Len(needle)) :
        \A j \in 1..Len(needle) : hay[i + j] = needle[j]

\* Python str(list_of_strings): "['a', 'b']"
RECURSIVE ReprItems(_)
ReprItems(l) ==
    IF l = <<>> THEN <<>>
    ELSE <<"'">> \o Head(l) \o <<"'">> \o
         (IF Len(l) > 1 THEN <<",", " ">> ELSE <<>>) \o ReprItems(Tail(l))

str_list(l) == <<"[">> \o ReprItems(l) \o <<"]">>

UpperChars == <<"A","B","C","D","E","F","G","H","I","J","K","L","M",
                "N","O","P","Q","R","S","T","U","V","W","X","Y","Z">>
LowerChars == <<"a","b","c","d","e","f","g","h","i","j","k","l","m",
                "n","o","p","q","r","s","t","u","v","w","x","y","z">>

LowerChar(c) ==
    IF \E i \in 1..26 : UpperChars[i] = c
    THEN LowerChars[CHOOSE i \in 1..26 : UpperChars[i] = c]
    ELSE c

\* Python s.lower()
lower(s) == [i \in 1..Len(s) |-> LowerChar(s[i])]

\* sequences over S of length at most n
SeqsUpTo(S, n) == UNION {[1..k -> S] : k \in 0..n}

\* the elements of a sequence
Range(s) == {s[i] : i \in 1..Len(s)}

-----------------------------------------------------------------------------
(* Python values *)

\* a Python dict read by the orchestrators (an agent result, a parsed JSON
\* body): `keys` are the keys present among those the code reads, `none`
\* says the slot holds None instead of a dict
Dict(keys, type, response, pkeys, text) ==
    [none |-> FALSE, keys |-> keys, type |-> type, response |-> response,
     payload |-> [keys |-> pkeys, text |-> text]]

None == [none |-> TRUE, keys |-> {}, type |-> "", response |-> <<>>,
         payload |-> [keys |-> {}, text |-> <<>>]]

\* bool(d) for a dict or None
Truthy(d) == ~d.none /\ d.keys # {}

\* d.get("response", default)
get_response(d, default) == IF "response" \in d.keys THEN d.response ELSE default

\* payload.get("text", default)
get_text(p, default) == IF "text" \in p.keys THEN p.text ELSE default

-----------------------------------------------------------------------------
(* Agent configuration: LLM orchestrator *)

AgentConfig(name, scheme, host, port) ==
    [name |-> name, url |-> [scheme |-> scheme, host |-> host], port |-> port]

NoAgent == AgentConfig(<<>>, "", "", 0)

FALLBACK_AGENTS ==
    (s_mbta_alerts :> AgentConfig(s_mbta_alerts, "http", "96.126.111.107", 8001)) @@
    (s_mbta_stops :> AgentConfig(s_mbta_stops, "http", "96.126.111.107", 8003)) @@
    (s_mbta_route_planner :>
        AgentConfig(s_mbta_route_planner, "http", "96.126.111.107", 8002))

capability_from_agent_name(agent_name) ==
    CASE agent_name = s_mbta_alerts -> s_alerts
      [] agent_name = s_mbta_stops -> s_stops
      [] agent_name = s_mbta_route_planner -> s_trip_planning
      [] OTHER -> agent_name

\* timedelta(minutes=5)
cache_ttl == 5

\* an entry of _discovery_cache; `present` is `cache_key in _discovery_cache`
CacheEntry(agent, time) == [present |-> TRUE, agent |-> agent, time |-> time]
NoEntry == [present |-> FALSE, agent |-> NoAgent, time |-> 0]

\* a cache check that still accepts an entry whose age equals the TTL
CacheHit_inclusive(cache, agent_name, t) ==
    /\ cache[agent_name].present
    /\ t - cache[agent_name].time <= cache_ttl

\* the cache check at the head of discover_agent
CacheHit(cache, agent_name, t) ==
    /\ cache[agent_name].present
    /\ t - cache[agent_name].time < cache_ttl

-----------------------------------------------------------------------------
(* The AgentState dict and the inputs of a turn *)

\* user messages given to process_message
m_hi == <<"h","i">>
m_delay == <<"d","e","l","a","y">>
m_route == <<"r","o","u","t","e">>
m_stop == <<"S","t","o","p">>
m_hey == <<"H","E","Y">>
Messages == {m_hi, m_delay, m_route, m_stop}

\* the LLM orchestrator reads the message only in synthesize, to tell a
\* greeting from any other text; the keyword orchestrator classifies it
MessagesOf(i) == IF i = "llm" THEN {m_hey, m_stop} ELSE Messages

ConversationIds == {"c1"}

\* strings the LLM may put in agents_needed: the three agent names of the
\* prompt, a short label and a name of no agent
AgentStrings == {s_mbta_alerts, s_mbta_stops, s_mbta_route_planner, s_alerts, s_weather}

\* intent labels the LLM may return
IntentLabels == {"alerts", "stop_info", "stops", "trip_planning", "general", "other"}

\* Python None held where an intent label is expected (a JSON null)
IntentNone == "<None>"

\* llm_routing_decision: None, or the dict classify_with_llm returned
\* (`malformed`: the keys whose value is not of a type the node can format:
\* a confidence that is no number, an agents_needed that is neither a list of
\* strings nor a string)
Decision(keys, intent, confidence, agents_needed) ==
    [none |-> FALSE, keys |-> keys, intent |-> intent, confidence |-> confidence,
     agents_needed |-> agents_needed, malformed |-> {}]
NoDecision == [none |-> TRUE, keys |-> {}, intent |-> "", confidence |-> 0,
               agents_needed |-> <<>>, malformed |-> {}]

\* initial_state of process_message; confidence is in hundredths
initial_state(user_message, conversation_id) ==
    [user_message |-> user_message,
     conversation_id |-> conversation_id,
     intent |-> "",
     confidence |-> 0,
     agents_to_call |-> <<>>,
     agents_called |-> <<>>,
     alerts_result |-> None,
     stops_result |-> None,
     planner_result |-> None,
     final_response |-> <<>>,
     should_end |-> FALSE,
     llm_routing_decision |-> NoDecision]

\* llm_decision.get("agents_needed", [])
agents_needed_of(st) ==
    IF "agents_needed" \in st.llm_routing_decision.keys
    THEN st.llm_routing_decision.agents_needed
    ELSE <<>>

-----------------------------------------------------------------------------
(* Routing functions: LLM orchestrator *)

\* route_after_intent sending trip_planning through stops first, as the
\* keyword orchestrator does
route_after_intent_stops_first(st) ==
    LET agents_needed == agents_needed_of(st) IN
    IF agents_needed = <<>>
    THEN CASE st.intent = "alerts" -> "alerts"
           [] st.intent \in {"stop_info", "stops", "trip_planning"} -> "stops"
           [] OTHER -> "synthesize"
    ELSE LET first_agent == agents_needed[1] IN
         CASE Contains(first_agent, s_alerts) -> "alerts"
           [] Contains(first_agent, s_stops) -> "stops"
           [] Contains(first_agent, s_planner) \/ Contains(first_agent, s_route) -> "planner"
           [] OTHER -> "synthesize"

\* route_after_intent reading the last entry of the sequence, agents_needed[-1]
route_after_intent_last_entry(st) ==
    LET agents_needed == agents_needed_of(st) IN
    IF agents_needed = <<>>
    THEN CASE st.intent = "alerts" -> "alerts"
           [] st.intent \in {"stop_info", "stops"} -> "stops"
           [] st.intent = "trip_planning" -> "planner"
           [] OTHER -> "synthesize"
    ELSE LET first_agent == agents_needed[Len(agents_needed)] IN
         CASE Contains(first_agent, s_alerts) -> "alerts"
           [] Contains(first_agent, s_stops) -> "stops"
           [] Contains(first_agent, s_planner) \/ Contains(first_agent, s_route) -> "planner"
           [] OTHER -> "synthesize"

\* route_after_intent sending a general intent with no sequence to the alerts
\* agent, as the keyword orchestrator does
route_after_intent_general_to_alerts(st) ==
    LET agents_needed == agents_needed_of(st) IN
    IF agents_needed = <<>>
    THEN CASE st.intent = "alerts" -> "alerts"
           [] st.intent \in {"stop_info", "stops"} -> "stops"
           [] st.intent = "trip_planning" -> "planner"
           [] OTHER -> "alerts"
    ELSE LET first_agent == agents_needed[1] IN
         CASE Contains(first_agent, s_alerts) -> "alerts"
           [] Contains(first_agent, s_stops) -> "stops"
           [] Contains(first_agent, s_planner) \/ Contains(first_agent, s_route) -> "planner"
           [] OTHER -> "synthesize"

route_after_intent(st) ==
    LET agents_needed == agents_needed_of(st) IN
    IF agents_needed = <<>>
    THEN CASE st.intent = "alerts" -> "alerts"
           [] st.intent \in {"stop_info", "stops"} -> "stops"
           [] st.intent = "trip_planning" -> "planner"
           [] OTHER -> "synthesize"
    ELSE LET first_agent == agents_needed[1] IN
         CASE Contains(first_agent, s_alerts) -> "alerts"
           [] Contains(first_agent, s_stops) -> "stops"
           [] Contains(first_agent, s_planner) \/ Contains(first_agent, s_route) -> "planner"
           [] OTHER -> "synthesize"

\* route_after_alerts chaining to the planner whenever more agents are listed,
\* without reading the next entry
route_after_alerts_always_planner(st) ==
    LET agents_needed == agents_needed_of(st) IN
    IF Len(agents_needed) > 1 /\ agents_needed[1] = s_mbta_alerts
    THEN "planner"
    ELSE "synthesize"

route_after_alerts(st) ==
    LET agents_needed == agents_needed_of(st) IN
    IF Len(agents_needed) > 1 /\ agents_needed[1] = s_mbta_alerts
    THEN LET next_agent == agents_needed[2] IN
         CASE Contains(next_agent, s_stops) -> "stops"
           [] Contains(next_agent, s_planner) \/ Contains(next_agent, s_route) -> "planner"
           [] OTHER -> "synthesize"
    ELSE "synthesize"

\* route_after_stops with the bound of `i + 1 < len(agents_needed)` off by one
route_after_stops_off_by_one(st) ==
    LET agents_needed == agents_needed_of(st)
        withStops == {i \in 1..Len(agents_needed) : Contains(agents_needed[i], s_stops)}
    IN
    IF (\E i \in 1..Len(agents_needed) : agents_needed[i] = s_mbta_route_planner)
       \/ Contains(str_list(agents_needed), s_planner)
    THEN IF withStops # {}
         THEN LET i == CHOOSE k \in withStops : \A l \in withStops : k <= l IN
              IF i + 1 < Len(agents_needed) THEN "planner" ELSE "synthesize"
         ELSE "synthesize"
    ELSE "synthesize"

route_after_stops(st) ==
    LET agents_needed == agents_needed_of(st)
        withStops == {i \in 1..Len(agents_needed) : Contains(agents_needed[i], s_stops)}
    IN
    IF (\E i \in 1..Len(agents_needed) : agents_needed[i] = s_mbta_route_planner)
       \/ Contains(str_list(agents_needed), s_planner)
    THEN IF withStops # {}
         THEN LET i == CHOOSE k \in withStops : \A l \in withStops : k <= l IN
              IF i + 1 <= Len(agents_needed) THEN "planner" ELSE "synthesize"
         ELSE "synthesize"
    ELSE "synthesize"

route_after_planner(st) == "synthesize"

\* build_mbta_graph: the routing function attached to each node
route_of(node, st) ==
    CASE node = "classify_intent" -> route_after_intent(st)
      [] node = "alerts" -> route_after_alerts(st)
      [] node = "stops" -> route_after_stops(st)
      [] node = "planner" -> route_after_planner(st)

\* the path maps with a wrong target for the planner's only label
conditional_edges_typo(node) ==
    CASE node = "classify_intent" ->
            ("alerts" :> "alerts") @@ ("stops" :> "stops") @@
            ("planner" :> "planner") @@ ("synthesize" :> "synthesize")
      [] node = "alerts" ->
            ("stops" :> "stops") @@ ("planner" :> "planner") @@
            ("synthesize" :> "synthesize")
      [] node = "stops" ->
            ("planner" :> "planner") @@ ("synthesize" :> "synthesize")
      [] node = "planner" -> ("synthesize" :> "stops")

\* build_mbta_graph: the path map of each node's conditional edges
conditional_edges(node) ==
    CASE node = "classify_intent" ->
            ("alerts" :> "alerts") @@ ("stops" :> "stops") @@
            ("planner" :> "planner") @@ ("synthesize" :> "synthesize")
      [] node = "alerts" ->
            ("stops" :> "stops") @@ ("planner" :> "planner") @@
            ("synthesize" :> "synthesize")
      [] node = "stops" ->
            ("planner" :> "planner") @@ ("synthesize" :> "synthesize")
      [] node = "planner" -> ("synthesize" :> "synthesize")

-----------------------------------------------------------------------------
(* Response synthesis *)

Whitespace == {" ", "\n", "\t"}

\* bool(s.strip()) for a string s
NonBlank(s) == \E i \in 1..Len(s) : s[i] \notin Whitespace

\* sep.join(list)
RECURSIVE Join(_, _)
Join(list, sep) ==
    IF list = <<>> THEN <<>>
    ELSE IF Len(list) = 1 THEN Head(list)
    ELSE Head(list) \o sep \o Join(Tail(list), sep)

\* list(filter(None, list)) for a list of strings
RECURSIVE FilterNone(_)
FilterNone(list) ==
    IF list = <<>> THEN <<>>
    ELSE (IF Head(list) # <<>> THEN <<Head(list)>> ELSE <<>>) \o FilterNone(Tail(list))

s_hello == <<"h","e","l","l","o">>
s_hey == <<"h","e","y">>
s_couldnt == <<"c","o","u","l","d","n","'","t">>
BlankLine == <<"\n", "\n">>

\* the three fixed texts of synthesize_response_node (lines 329, 335, 359),
\* each abbreviated to its first words
GREETING == <<"H","e","l","l","o","!"," ","I","'","m"," ","M","B","T","A">>
CAPABILITIES == <<"I","'","m"," ","s","p","e","c","i","a","l","i","z","e","d">>
APOLOGY == <<"I"," ","r","e","c","e","i","v","e","d"," ","y","o","u","r">>

\* a synthesis that answers a general intent with the canned texts only when
\* no agent was invoked
synthesize_response_general_with_results(st) ==
    IF st.intent = "general" /\ ~Truthy(st.alerts_result)
       /\ ~Truthy(st.stops_result) /\ ~Truthy(st.planner_result)
    THEN LET message == lower(st.user_message) IN
         IF \E word \in {m_hi, s_hello, s_hey} : Contains(message, word)
         THEN GREETING
         ELSE CAPABILITIES
    ELSE LET alert_response == get_response(st.alerts_result, <<>>)
             stop_response == get_response(st.stops_result, <<>>)
             planner_response == get_response(st.planner_result, <<>>)
             responses ==
                 (IF Truthy(st.alerts_result) /\ alert_response # <<>>
                     /\ NonBlank(alert_response)
                  THEN <<alert_response>> ELSE <<>>) \o
                 (IF Truthy(st.stops_result) /\ stop_response # <<>>
                     /\ NonBlank(stop_response)
                     /\ ~Contains(lower(stop_response), s_couldnt)
                  THEN <<stop_response>> ELSE <<>>) \o
                 (IF Truthy(st.planner_result) /\ planner_response # <<>>
                     /\ NonBlank(planner_response)
                  THEN <<planner_response>> ELSE <<>>)
         IN IF responses # <<>>
            THEN Join(FilterNone(responses), BlankLine)
            ELSE APOLOGY

\* a synthesis that matches the greeting keywords without lower-casing the
\* message
synthesize_response_case_sensitive(st) ==
    IF st.intent = "general"
    THEN LET message == st.user_message IN
         IF \E word \in {m_hi, s_hello, s_hey} : Contains(message, word)
         THEN GREETING
         ELSE CAPABILITIES
    ELSE LET alert_response == get_response(st.alerts_result, <<>>)
             stop_response == get_response(st.stops_result, <<>>)
             planner_response == get_response(st.planner_result, <<>>)
             responses ==
                 (IF Truthy(st.alerts_result) /\ alert_response # <<>>
                     /\ NonBlank(alert_response)
                  THEN <<alert_response>> ELSE <<>>) \o
                 (IF Truthy(st.stops_result) /\ stop_response # <<>>
                     /\ NonBlank(stop_response)
                     /\ ~Contains(lower(stop_response), s_couldnt)
                  THEN <<stop_response>> ELSE <<>>) \o
                 (IF Truthy(st.planner_result) /\ planner_response # <<>>
                     /\ NonBlank(planner_response)
                  THEN <<planner_response>> ELSE <<>>)
         IN IF responses # <<>>
            THEN Join(FilterNone(responses), BlankLine)
            ELSE APOLOGY

\* a synthesis that keeps a stops text saying "couldn't"
synthesize_response_keeps_couldnt(st) ==
    IF st.intent = "general"
    THEN LET message == lower(st.user_message) IN
         IF \E word \in {m_hi, s_hello, s_hey} : Contains(message, word)
         THEN GREETING
         ELSE CAPABILITIES
    ELSE LET alert_response == get_response(st.alerts_result, <<>>)
             stop_response == get_response(st.stops_result, <<>>)
             planner_response == get_response(st.planner_result, <<>>)
             responses ==
                 (IF Truthy(st.alerts_result) /\ alert_response # <<>>
                     /\ NonBlank(alert_response)
                  THEN <<alert_response>> ELSE <<>>) \o
                 (IF Truthy(st.stops_result) /\ stop_response # <<>>
                     /\ NonBlank(stop_response)
                  THEN <<stop_response>> ELSE <<>>) \o
                 (IF Truthy(st.planner_result) /\ planner_response # <<>>
                     /\ NonBlank(planner_response)
                  THEN <<planner_response>> ELSE <<>>)
         IN IF responses # <<>>
            THEN Join(FilterNone(responses), BlankLine)
            ELSE APOLOGY

\* final_response of the LLM orchestrator's synthesize_response_node
synthesize_response(st) ==
    IF st.intent = "general"
    THEN LET message == lower(st.user_message) IN
         IF \E word \in {m_hi, s_hello, s_hey} : Contains(message, word)
         THEN GREETING
         ELSE CAPABILITIES
    ELSE LET alert_response == get_response(st.alerts_result, <<>>)
             stop_response == get_response(st.stops_result, <<>>)
             planner_response == get_response(st.planner_result, <<>>)
             responses ==
                 (IF Truthy(st.alerts_result) /\ alert_response # <<>>
                     /\ NonBlank(alert_response)
                  THEN <<alert_response>> ELSE <<>>) \o
                 (IF Truthy(st.stops_result) /\ stop_response # <<>>
                     /\ NonBlank(stop_response)
                     /\ ~Contains(lower(stop_response), s_couldnt)
                  THEN <<stop_response>> ELSE <<>>) \o
                 (IF Truthy(st.planner_result) /\ planner_response # <<>>
                     /\ NonBlank(planner_response)
                  THEN <<planner_response>> ELSE <<>>)
         IN IF responses # <<>>
            THEN Join(FilterNone(responses), BlankLine)
            ELSE APOLOGY

\* the state synthesize_response_node returns
synthesize_response_node(st) ==
    [st EXCEPT !.final_response = synthesize_response(st), !.should_end = TRUE]

\* final_response of the keyword orchestrator's synthesize_response_node
synthesize_response_kw(st) ==
    LET responses ==
            (IF Truthy(st.alerts_result)
             THEN <<get_response(st.alerts_result, <<>>)>> ELSE <<>>) \o
            (IF Truthy(st.stops_result)
             THEN <<get_response(st.stops_result, <<>>)>> ELSE <<>>) \o
            (IF Truthy(st.planner_result)
             THEN <<get_response(st.planner_result, <<>>)>> ELSE <<>>)
    IN Join(FilterNone(responses), BlankLine)

synthesize_response_node_kw(st) ==
    [st EXCEPT !.final_response = synthesize_response_kw(st), !.should_end = TRUE]

-----------------------------------------------------------------------------
(* Keyword orchestrator: classification and routing *)

kw_alert == <<"a","l","e","r","t">>
kw_issue == <<"i","s","s","u","e">>
kw_problem == <<"p","r","o","b","l","e","m">>
kw_how_do_i_get == <<"h","o","w"," ","d","o"," ","i"," ","g","e","t">>
kw_directions == <<"d","i","r","e","c","t","i","o","n","s">>
kw_travel == <<"t","r","a","v","e","l">>
kw_stop == <<"s","t","o","p">>
kw_station == <<"s","t","a","t","i","o","n">>
kw_find == <<"f","i","n","d">>
kw_near == <<"n","e","a","r">>

\* the trip-planning keywords tested before the alerts keywords
classify_intent_kw_trip_first(user_message) ==
    LET message == lower(user_message) IN
    IF \E word \in {kw_how_do_i_get, m_route, kw_directions, kw_travel} :
                Contains(message, word)
    THEN [intent |-> "trip_planning", confidence |-> 90]
    ELSE IF \E word \in {kw_alert, m_delay, kw_issue, kw_problem} : Contains(message, word)
    THEN [intent |-> "alerts", confidence |-> 90]
    ELSE IF \E word \in {kw_stop, kw_station, kw_find, kw_near} : Contains(message, word)
    THEN [intent |-> "stop_info", confidence |-> 85]
    ELSE [intent |-> "general", confidence |-> 60]

\* the intent and confidence (in hundredths) classify_intent_node assigns
classify_intent_kw(user_message) ==
    LET message == lower(user_message) IN
    IF \E word \in {kw_alert, m_delay, kw_issue, kw_problem} : Contains(message, word)
    THEN [intent |-> "alerts", confidence |-> 90]
    ELSE IF \E word \in {kw_how_do_i_get, m_route, kw_directions, kw_travel} :
                Contains(message, word)
    THEN [intent |-> "trip_planning", confidence |-> 90]
    ELSE IF \E word \in {kw_stop, kw_station, kw_find, kw_near} : Contains(message, word)
    THEN [intent |-> "stop_info", confidence |-> 85]
    ELSE [intent |-> "general", confidence |-> 60]

\* trip planning routed straight to the planner
route_after_intent_kw_planner_first(st) ==
    CASE st.intent = "alerts" -> "alerts"
      [] st.intent = "stop_info" -> "stops"
      [] st.intent = "trip_planning" -> "planner"
      [] OTHER -> "alerts"

route_after_intent_kw(st) ==
    CASE st.intent = "alerts" -> "alerts"
      [] st.intent = "stop_info" -> "stops"
      [] st.intent = "trip_planning" -> "stops"
      [] OTHER -> "alerts"

route_after_stops_kw(st) ==
    IF st.intent = "trip_planning" THEN "planner" ELSE "synthesize"

route_after_alerts_kw(st) ==
    IF st.intent = "general" THEN "stops" ELSE "synthesize"

route_after_planner_kw(st) == "synthesize"

route_of_kw(node, st) ==
    CASE node = "classify_intent" -> route_after_intent_kw(st)
      [] node = "alerts" -> route_after_alerts_kw(st)
      [] node = "stops" -> route_after_stops_kw(st)
      [] node = "planner" -> route_after_planner_kw(st)

conditional_edges_kw(node) ==
    CASE node = "classify_intent" ->
            ("alerts" :> "alerts") @@ ("stops" :> "stops") @@
            ("planner" :> "planner") @@ ("synthesize" :> "synthesize")
      [] node = "alerts" -> ("stops" :> "stops") @@ ("synthesize" :> "synthesize")
      [] node = "stops" -> ("planner" :> "planner") @@ ("synthesize" :> "synthesize")
      [] node = "planner" -> ("synthesize" :> "synthesize")

-----------------------------------------------------------------------------
(* Agent nodes and call_agent_api *)

AgentNodes == {"alerts", "stops", "planner"}
Nodes == {"classify_intent"} \cup AgentNodes \cup {"synthesize"}

\* the alerts node passing its graph label instead of the agent's name
agent_name_of_label(node) ==
    CASE node = "alerts" -> s_alerts
      [] node = "stops" -> s_mbta_stops
      [] node = "planner" -> s_mbta_route_planner

\* the agent name each node of the LLM orchestrator passes to call_agent_api
agent_name_of(node) ==
    CASE node = "alerts" -> s_mbta_alerts
      [] node = "stops" -> s_mbta_stops
      [] node = "planner" -> s_mbta_route_planner

\* the state each agent node returns, given the result of call_agent_api
alerts_agent_node(st, result) ==
    [st EXCEPT !.alerts_result = result,
               !.agents_called = Append(@, s_mbta_alerts)]

\* the stops node recording its result without appending its name
stops_agent_node_no_append(st, result) ==
    [st EXCEPT !.stops_result = result]

stops_agent_node(st, result) ==
    [st EXCEPT !.stops_result = result,
               !.agents_called = Append(@, s_mbta_stops)]

planner_agent_node(st, result) ==
    [st EXCEPT !.planner_result = result,
               !.agents_called = Append(@, s_mbta_route_planner)]

agent_node(node, st, result) ==
    CASE node = "alerts" -> alerts_agent_node(st, result)
      [] node = "stops" -> stops_agent_node(st, result)
      [] node = "planner" -> planner_agent_node(st, result)

\* keyword orchestrator: the static table, the names its nodes pass and the
\* message its nodes send
AGENTS ==
    (s_mbta_alerts :> AgentConfig(s_mbta_alerts, "http", "localhost", 8001)) @@
    (s_mbta_stops :> AgentConfig(s_mbta_stops, "http", "localhost", 8003)) @@
    (s_mbta_route_planner :> AgentConfig(s_mbta_route_planner, "http", "localhost", 8002))

agent_name_of_kw(node) ==
    CASE node = "alerts" -> s_mbta_alerts
      [] node = "stops" -> s_mbta_stops
      [] node = "planner" -> s_mbta_route_planner

s_context_note ==
    <<"\n","[","C","o","n","t","e","x","t",":"," ","S","t","o","p"," ","d","a","t","a",
      " ","a","v","a","i","l","a","b","l","e","]">>

\* every node appending the note, stops data or not
message_of_kw_note_always(node, st) == st.user_message \o s_context_note

message_of_kw(node, st) ==
    IF node = "planner" /\ Truthy(st.stops_result)
    THEN st.user_message \o s_context_note
    ELSE st.user_message

\* the request envelope call_agent_api POSTs
Request(agent_name, message) ==
    [type |-> "request",
     payload |-> [message |-> message, conversation_id |-> "stategraph-session"],
     metadata |-> [source |-> "stategraph-orchestrator", agent |-> agent_name]]

\* client.post sending the request again after the first attempt
client_post_twice(sent, request) == Append(Append(sent, request), request)

\* `await client.post(url, json=payload)`: the requests sent so far and this one
client_post(sent, request) == Append(sent, request)

\* call_agent_api returning the parsed body as it is, as the keyword
\* orchestrator does
normalize_reply_raw(body) == body

\* what call_agent_api returns for the parsed body `result`
normalize_reply(body) ==
    IF "type" \in body.keys /\ body.type = "response" /\ "payload" \in body.keys
    THEN Dict({"response", "payload"}, "", get_text(body.payload, <<>>),
              body.payload.keys, body.payload.text)
    ELSE body

\* reply texts and parsed reply bodies of the agents
t_delays == <<"N","o"," ","d","e","l","a","y","s">>
t_couldnt == <<"C","o","u","l","d","n","'","t"," ","f","i","n","d">>
t_blank == <<" ">>

ReplyBodies ==
    {Dict({"type", "payload"}, "response", <<>>, {"text"}, t_delays),
     Dict({"type", "payload"}, "response", <<>>, {"text"}, t_couldnt),
     Dict({"type", "payload"}, "response", <<>>, {"text"}, t_blank),
     Dict({"response"}, "", t_delays, {}, <<>>),
     Dict({"type", "payload"}, "response", <<>>, {}, <<>>),
     Dict({"type"}, "error", <<>>, {}, <<>>)}

\* outcomes of the POST: the exception it raises, or the parsed body
PostFailures == {"TimeoutException", "ConnectError", "HTTPStatusError",
                 "JSONDecodeError", "AttributeError"}
AgentReplies ==
    {[error |-> e, body |-> None] : e \in PostFailures} \cup
    {[error |-> "", body |-> b] : b \in ReplyBodies}

\* locals of the call in flight
Call(agent_name, agent, lookup) ==
    [agent_name |-> agent_name, agent |-> agent, lookup |-> lookup]
NoCall == Call(<<>>, NoAgent, "")

\* a discover_agent call that ended: the descriptor it returned (NoAgent when
\* it raised), where the descriptor came from ("cache", "registry" or the
\* exception that led to the fallback), when the call was made and when it
\* returned
Seen(agent, lookup, made, time) ==
    [none |-> FALSE, agent |-> agent, lookup |-> lookup, made |-> made, time |-> time]
NoSeen == [none |-> TRUE, agent |-> NoAgent, lookup |-> "", made |-> 0, time |-> 0]

\* the calls observed for the name `name` (<<>>: no name is observed): when
\* the call in flight was made, and the last two calls that ended
History(name, made, prev, cur) ==
    [name |-> name, made |-> made, prev |-> prev, cur |-> cur]
NoHistory == History(<<>>, 0, NoSeen, NoSeen)

CallMade(h, agent_name, t) ==
    IF agent_name = h.name THEN [h EXCEPT !.made = t] ELSE h

CallEnded(h, agent_name, agent, lookup, t) ==
    IF agent_name = h.name
    THEN [h EXCEPT !.prev = h.cur, !.cur = Seen(agent, lookup, h.made, t)]
    ELSE h

-----------------------------------------------------------------------------
(* Agent directory: discover_agent *)

\* first element of the registry's reply, its agent_url already split by urlparse
\* (hostname "" stands for None, port 0 for None)
AgentData(agent_id, scheme, hostname, port) ==
    [agent_id |-> agent_id,
     agent_url |-> [scheme |-> scheme, hostname |-> hostname, port |-> port]]

r_agent_id == <<"a","1">>

RegistryFailures == {"TimeoutException", "ConnectError", "HTTPStatusError",
                     "JSONDecodeError", "AttributeError"}
RegistryReplies ==
    {[error |-> e, results |-> <<>>, object |-> FALSE] : e \in RegistryFailures} \cup
    {[error |-> "", results |-> r, object |-> FALSE] :
        r \in {<<>>,
               <<AgentData(r_agent_id, "http", "10.0.0.1", 9001)>>,
               <<AgentData(r_agent_id, "http", "10.0.0.2", 0)>>,
               <<AgentData(r_agent_id, "", "", 0)>>}}

\* the outcome of the try block of discover_agent for a registry reply:
\* the exception caught by `except Exception`, or "" and the descriptor built
\* (`object`: the body is a JSON object with keys, not an array, so that
\* results[0] raises KeyError)
discover_try(reply) ==
    IF reply.error # "" THEN [error |-> reply.error, agent |-> NoAgent]
    ELSE IF reply.object THEN [error |-> "KeyError", agent |-> NoAgent]
    ELSE IF reply.results = <<>> THEN [error |-> "ValueError", agent |-> NoAgent]
    ELSE LET agent_data == reply.results[1]
             parsed == agent_data.agent_url
         IN IF parsed.hostname = ""
            THEN [error |-> "ValueError", agent |-> NoAgent]
            ELSE [error |-> "",
                  agent |-> AgentConfig(agent_data.agent_id, parsed.scheme,
                                        parsed.hostname,
                                        IF parsed.port # 0 THEN parsed.port ELSE 80)]

\* the except branch indexing the table by capability instead of by name
discover_fallback_by_capability(agent_name) ==
    LET key == capability_from_agent_name(agent_name) IN
    IF key \in DOMAIN FALLBACK_AGENTS
    THEN [error |-> "", agent |-> FALLBACK_AGENTS[key]]
    ELSE [error |-> "KeyError", agent |-> NoAgent]

\* the except branch of discover_agent: FALLBACK_AGENTS[agent_name]
discover_fallback(agent_name) ==
    IF agent_name \in DOMAIN FALLBACK_AGENTS
    THEN [error |-> "", agent |-> FALLBACK_AGENTS[agent_name]]
    ELSE [error |-> "KeyError", agent |-> NoAgent]

\* discover_agent returning what the registry gave without storing it
discover_agent_no_store(cache, agent_name, reply, t) ==
    LET try == discover_try(reply) IN
    IF try.error = ""
    THEN [error |-> "", agent |-> try.agent, lookup |-> "registry", cache |-> cache]
    ELSE LET fb == discover_fallback(agent_name) IN
         [error |-> fb.error, agent |-> fb.agent, lookup |-> try.error,
          cache |-> cache]

\* discover_agent storing the fallback descriptor too
discover_agent_stores_fallback(cache, agent_name, reply, t) ==
    LET try == discover_try(reply) IN
    IF try.error = ""
    THEN [error |-> "", agent |-> try.agent, lookup |-> "registry",
          cache |-> [cache EXCEPT ![agent_name] = CacheEntry(try.agent, t)]]
    ELSE LET fb == discover_fallback(agent_name) IN
         [error |-> fb.error, agent |-> fb.agent, lookup |-> try.error,
          cache |-> IF fb.error = ""
                    THEN [cache EXCEPT ![agent_name] = CacheEntry(fb.agent, t)]
                    ELSE cache]

\* discover_agent storing a descriptor only where the cache holds none
discover_agent_first_writer(cache, agent_name, reply, t) ==
    LET try == discover_try(reply) IN
    IF try.error = ""
    THEN [error |-> "", agent |-> try.agent, lookup |-> "registry",
          cache |-> IF cache[agent_name] = NoEntry
                    THEN [cache EXCEPT ![agent_name] = CacheEntry(try.agent, t)]
                    ELSE cache]
    ELSE LET fb == discover_fallback(agent_name) IN
         [error |-> fb.error, agent |-> fb.agent, lookup |-> try.error,
          cache |-> cache]

\* discover_agent after the registry replied: what it returns or raises, and
\* the cache it leaves
discover_agent(cache, agent_name, reply, t) ==
    LET try == discover_try(reply) IN
    IF try.error = ""
    THEN [error |-> "", agent |-> try.agent, lookup |-> "registry",
          cache |-> [cache EXCEPT ![agent_name] = CacheEntry(try.agent, t)]]
    ELSE LET fb == discover_fallback(agent_name) IN
         [error |-> fb.error, agent |-> fb.agent, lookup |-> try.error,
          cache |-> cache]

-----------------------------------------------------------------------------
(* LLM classification *)

AllKeys == {"intent", "confidence", "agents_needed", "reasoning"}

\* what the chat completion gives classify_with_llm: an exception of the call
\* or of json.loads, or a parsed object with some of the four keys
LLMReply(err, keys, intent, confidence, agents_needed) ==
    [error |-> err, keys |-> keys, intent |-> intent, confidence |-> confidence,
     agents_needed |-> agents_needed, malformed |-> {}]
NoReply == LLMReply("", {}, "", 0, <<>>)

\* a JSON string given for agents_needed: a Python str, which the code
\* indexes and iterates character by character
StrAsList(str) == [i \in 1..Len(str) |-> <<str[i]>>]

\* replies whose values have the wrong shape: a confidence out of [0, 1], a
\* null intent, a
\* confidence or an agents_needed of a type the node cannot format (a string
\* or null for the number, null or a number for the list), a string where
\* the list is expected
WrongShapeReplies ==
    {LLMReply("", AllKeys, "alerts", c, <<s_mbta_alerts>>) : c \in {150, -10}} \cup
    {LLMReply("", AllKeys, IntentNone, 90, <<>>)} \cup
    {[LLMReply("", AllKeys, "alerts", 90, <<s_mbta_alerts>>) EXCEPT !.malformed = {k}] :
        k \in {"confidence", "agents_needed"}} \cup
    {LLMReply("", AllKeys, "alerts", 90, StrAsList(s_mbta_alerts))}

\* the intents given together with a non-empty sequence: the routing functions
\* read the intent only when the sequence is empty, and the synthesis only
\* tells general from the rest
SequenceIntents == {"stop_info", "general"}

LLMReplies ==
    {LLMReply(e, {}, "", 0, <<>>) : e \in {"APITimeoutError", "JSONDecodeError"}} \cup
    {LLMReply("", AllKeys, i, 90, <<>>) : i \in IntentLabels} \cup
    {LLMReply("", AllKeys, i, 90, a) :
        i \in SequenceIntents, a \in SeqsUpTo(AgentStrings, MaxSeqLen)} \cup
    {LLMReply("", AllKeys \ {k}, "alerts", 90, <<s_mbta_alerts>>) : k \in AllKeys} \cup
    WrongShapeReplies

\* the dict classify_with_llm returns
classify_with_llm(reply) ==
    IF reply.error # "" \/ "intent" \notin reply.keys \/ "agents_needed" \notin reply.keys
    THEN Decision(AllKeys, "general", 50, <<>>)
    ELSE [Decision(reply.keys, reply.intent, reply.confidence, reply.agents_needed)
             EXCEPT !.malformed = reply.malformed]

\* classify_intent_node: the exception it raises ("" when none) and the state
\* it returns
classify_intent_node(st, reply) ==
    LET llm_result == classify_with_llm(reply) IN
    IF "confidence" \notin llm_result.keys
    THEN [error |-> "KeyError", state |-> st]
    ELSE IF llm_result.malformed # {}
    THEN [error |-> "TypeError", state |-> st]
    ELSE IF "reasoning" \notin llm_result.keys
    THEN [error |-> "KeyError", state |-> st]
    ELSE [error |-> "",
          state |-> [st EXCEPT !.intent = llm_result.intent,
                               !.confidence = llm_result.confidence,
                               !.llm_routing_decision = llm_result]]

-----------------------------------------------------------------------------
(* The state machine *)

CacheKeys == AgentStrings

\* a task suspended at an await: its frame (the locals of process_message,
\* of the node running and of the call in flight) and what it has done so far
Task(t_pc, t_step, t_status, t_error, t_state, t_call, t_visited, t_posts, t_steps_done, t_returned, t_llm_reply, t_made) ==
    [none |-> FALSE, pc |-> t_pc, step |-> t_step, status |-> t_status,
     error |-> t_error, state |-> t_state, call |-> t_call, visited |-> t_visited,
     posts |-> t_posts, steps_done |-> t_steps_done, returned |-> t_returned,
     llm_reply |-> t_llm_reply, made |-> t_made]

\* no other task
NoTask ==
    [none |-> TRUE, pc |-> "idle", step |-> "run", status |-> "idle",
     error |-> "", state |-> initial_state(<<>>, ""), call |-> NoCall,
     visited |-> <<>>, posts |-> <<>>, steps_done |-> [n \in AgentNodes |-> "none"],
     returned |-> [none |-> TRUE, response |-> <<>>, intent |-> "", confidence |-> 0,
                   agents_called |-> <<>>],
     llm_reply |-> NoReply, made |-> 0]

\* what the REST endpoint and the MCP tool make of the outcome of a service
\* call (`message` is the message of the ValueError raised, "" when none): the
\* HTTP status of agentIndex and the status field of the dict agent_mcp returns
front_end(op, message) ==
    [rest |-> IF message = "" THEN 200
              ELSE IF op # "register" THEN 404
              ELSE IF message = "Agent ID already exists" THEN 400
              ELSE 500,
     mcp |-> IF message = "" THEN "success" ELSE "error"]

\* a call of the registry service and how it ended
Outcome(op, agent_id, message) ==
    [none |-> FALSE, op |-> op, agent_id |-> agent_id, error |-> message,
     rest |-> front_end(op, message).rest, mcp |-> front_end(op, message).mcp]

\* no call of the registry service yet
NoOutcome ==
    [none |-> TRUE, op |-> "", agent_id |-> <<>>, error |-> "", rest |-> 0, mcp |-> ""]

\* process_message of an example agent was not called
NoLoop ==
    [status |-> "idle", agent |-> "", max_iterations |-> 0, iteration |-> 0,
     response |-> [none |-> TRUE, stop_reason |-> "", content |-> <<>>],
     next_block |-> 0, tool_results |-> <<>>, messages |-> <<>>,
     model_calls |-> 0, error |-> "", result |-> <<>>]

\* no search made yet
NoSearch ==
    [none |-> TRUE, capabilities |-> <<>>, domain |-> "", agents |-> <<>>, count |-> 0]

NoSteps == [n \in AgentNodes |-> "none"]

\* the dict process_message returns
Result(st) ==
    [none |-> FALSE, response |-> st.final_response, intent |-> st.intent,
     confidence |-> st.confidence, agents_called |-> st.agents_called]
NoResult == [none |-> TRUE, response |-> <<>>, intent |-> "", confidence |-> 0,
             agents_called |-> <<>>]

Init ==
    /\ impl \in {"llm", "keyword"}
    /\ now = 0
    /\ discovery_cache = [k \in CacheKeys |-> NoEntry]
    /\ pc = "idle"
    /\ step = "run"
    /\ status = "idle"
    /\ error = ""
    /\ state = initial_state(<<>>, "")
    /\ call = NoCall
    /\ visited = <<>>
    /\ posts = <<>>
    /\ steps_done = NoSteps
    /\ returned = NoResult
    /\ history = NoHistory
    /\ llm_reply = NoReply
    /\ parked = NoTask
    /\ registry_agents = <<>>
    /\ registry_reply = NoSearch
    /\ agent_id_index = "none"
    /\ registry_result = NoOutcome
    /\ tool_loop = NoLoop

\* process_message is called: the graph starts at its entry point
process_message ==
    /\ status = "idle"
    /\ \E user_message \in MessagesOf(impl), conversation_id \in ConversationIds :
          state' = initial_state(user_message, conversation_id)
    /\ pc' = "classify_intent"
    /\ step' = "run"
    /\ status' = "running"
    /\ error' = ""
    /\ call' = NoCall
    /\ visited' = <<>>
    /\ posts' = <<>>
    /\ steps_done' = NoSteps
    /\ returned' = NoResult
    /\ llm_reply' = NoReply
    /\ UNCHANGED <<now, discovery_cache, impl, parked, registry_agents, registry_reply, agent_id_index, tool_loop, registry_result, history>>

\* a graph that walks the agent sequence entry by entry, whatever was invoked
next_node_by_sequence(node, st) ==
    LET agents_needed == agents_needed_of(st)
        k == Len(st.agents_called)
    IN IF agents_needed = <<>>
       THEN (IF node = "classify_intent" THEN route_after_intent(st) ELSE "synthesize")
       ELSE IF k < Len(agents_needed)
       THEN LET entry == agents_needed[k + 1] IN
            CASE Contains(entry, s_alerts) -> "alerts"
              [] Contains(entry, s_stops) -> "stops"
              [] Contains(entry, s_planner) \/ Contains(entry, s_route) -> "planner"
              [] OTHER -> "synthesize"
       ELSE "synthesize"

\* the conditional edge leaving `node`: the next node, or the KeyError of a
\* label the path map does not hold
next_node(node, st) ==
    LET label == route_of(node, st)
        path_map == conditional_edges(node)
    IN IF label \in DOMAIN path_map THEN path_map[label] ELSE "KeyError"

next_node_kw(node, st) ==
    LET label == route_of_kw(node, st)
        path_map == conditional_edges_kw(node)
    IN IF label \in DOMAIN path_map THEN path_map[label] ELSE "KeyError"

\* the exception `e` leaves process_message
Raise(e) ==
    /\ status' = "raised"
    /\ error' = e
    /\ call' = NoCall
    /\ UNCHANGED <<pc, step, state, returned>>

\* the node returned state `st`; the graph follows the edge `target`
Follow(st, target) ==
    IF target = "KeyError"
    THEN /\ status' = "raised"
         /\ error' = "KeyError"
         /\ state' = st
         /\ call' = NoCall
         /\ UNCHANGED <<pc, step, returned>>
    ELSE /\ pc' = target
         /\ step' = "run"
         /\ state' = st
         /\ call' = NoCall
         /\ UNCHANGED <<status, error, returned>>

\* the replies of the outside world an action draws from: all of them for a
\* task on its own, a few when two tasks share the event loop
Inputs(all, few) == IF parked.none THEN all ELSE few

\* with two tasks: a completion that failed, one without "confidence", and
\* decisions for no agent, one, two and three agents
TwoTurnLLMReplies ==
    {LLMReply("APITimeoutError", {}, "", 0, <<>>),
     LLMReply("", AllKeys \ {"confidence"}, "alerts", 90, <<s_mbta_alerts>>),
     LLMReply("", AllKeys, "general", 90, <<>>)} \cup
    {LLMReply("", AllKeys, "stop_info", 90, a) :
        a \in {<<s_mbta_stops>>, <<s_mbta_alerts, s_mbta_stops>>,
               <<s_mbta_stops, s_mbta_route_planner>>,
               <<s_mbta_alerts, s_mbta_stops, s_mbta_route_planner>>}}

\* with two tasks: the registry unreachable, or naming one of two addresses
TwoTurnRegistryReplies ==
    {[error |-> "ConnectError", results |-> <<>>, object |-> FALSE],
     [error |-> "", results |-> <<AgentData(r_agent_id, "http", "10.0.0.1", 9001)>>,
      object |-> FALSE],
     [error |-> "", results |-> <<AgentData(r_agent_id, "http", "10.0.0.2", 0)>>,
      object |-> FALSE]}

\* with two tasks: agents that answer by what they are sent, with their name
\* and the message, the planner refusing the message "stop"
agent_answer(request) ==
    IF request.metadata.agent = s_mbta_route_planner /\ request.payload.message = m_stop
    THEN [error |-> "HTTPStatusError", body |-> None]
    ELSE [error |-> "",
          body |-> Dict({"type", "payload"}, "response", <<>>, {"text"},
                        request.metadata.agent \o request.payload.message)]

\* node classify_intent of the LLM orchestrator
ClassifyIntent ==
    /\ impl = "llm" /\ status = "running" /\ pc = "classify_intent"
    /\ visited' = Append(visited, pc)
    /\ \E reply \in Inputs(LLMReplies, TwoTurnLLMReplies) :
          LET r == classify_intent_node(state, reply) IN
          /\ llm_reply' = reply
          /\ IF r.error # "" THEN Raise(r.error)
             ELSE Follow(r.state, next_node(pc, r.state))
    /\ UNCHANGED <<now, discovery_cache, posts, steps_done, impl, parked, registry_agents, registry_reply, agent_id_index, tool_loop, registry_result, history>>

\* an agent node of the LLM orchestrator starts: call_agent_api calls
\* discover_agent, which returns the cached descriptor (the POST is sent) or
\* awaits the registry
AgentNodeStart ==
    /\ impl = "llm" /\ status = "running" /\ pc \in AgentNodes /\ step = "run"
    /\ visited' = Append(visited, pc)
    /\ LET agent_name == agent_name_of(pc) IN
       IF CacheHit(discovery_cache, agent_name, now)
       THEN /\ call' = Call(agent_name, discovery_cache[agent_name].agent, "cache")
            /\ posts' = client_post(posts, Request(agent_name, state.user_message))
            /\ step' = "post"
       ELSE /\ call' = Call(agent_name, NoAgent, "")
            /\ posts' = posts
            /\ step' = "lookup"
    /\ UNCHANGED <<now, discovery_cache, pc, status, error, state,
                   steps_done, returned, impl, parked, registry_agents, registry_reply, agent_id_index, tool_loop, registry_result, history, llm_reply>>

\* the registry replies (or the GET fails): discover_agent returns and
\* call_agent_api sends the POST
DiscoverAgentReply ==
    /\ impl = "llm" /\ status = "running" /\ pc \in AgentNodes /\ step = "lookup"
    /\ \E reply \in Inputs(RegistryReplies, TwoTurnRegistryReplies) :
          LET d == discover_agent(discovery_cache, call.agent_name, reply, now) IN
          /\ discovery_cache' = d.cache
          /\ IF d.error # ""
             THEN /\ Raise(d.error)
                  /\ steps_done' = [steps_done EXCEPT ![pc] = "failed"]
                  /\ posts' = posts
             ELSE /\ call' = Call(call.agent_name, d.agent, d.lookup)
                  /\ posts' = client_post(posts, Request(call.agent_name, state.user_message))
                  /\ step' = "post"
                  /\ UNCHANGED <<pc, status, error, state, steps_done, returned>>
    /\ UNCHANGED <<now, visited, impl, parked, registry_agents, registry_reply, agent_id_index, tool_loop, registry_result, history, llm_reply>>

\* the agent replies (or the POST fails): call_agent_api returns or raises,
\* the node returns and the conditional edge is followed
AgentNodeReply ==
    /\ impl = "llm" /\ status = "running" /\ pc \in AgentNodes /\ step = "post"
    /\ \E reply \in Inputs(AgentReplies, {agent_answer(posts[Len(posts)])}) :
          IF reply.error # ""
          THEN /\ Raise(reply.error)
               /\ steps_done' = [steps_done EXCEPT ![pc] = "failed"]
          ELSE LET st == agent_node(pc, state, normalize_reply(reply.body)) IN
               /\ Follow(st, next_node(pc, st))
               /\ steps_done' = [steps_done EXCEPT ![pc] = "ok"]
    /\ UNCHANGED <<now, discovery_cache, visited, posts, impl, parked, registry_agents, registry_reply, agent_id_index, tool_loop, registry_result, history, llm_reply>>

\* node synthesize of the LLM orchestrator, then the edge to END
Synthesize ==
    /\ impl = "llm" /\ status = "running" /\ pc = "synthesize"
    /\ visited' = Append(visited, pc)
    /\ state' = synthesize_response_node(state)
    /\ pc' = "END"
    /\ UNCHANGED <<now, discovery_cache, step, status, error, call, posts,
                   steps_done, returned, impl, parked, registry_agents, registry_reply, agent_id_index, tool_loop, registry_result, history, llm_reply>>

\* graph.ainvoke returned: process_message builds its result
Return ==
    /\ status = "running" /\ pc = "END"
    /\ returned' = Result(state)
    /\ status' = "returned"
    /\ UNCHANGED <<now, discovery_cache, pc, step, error, state, call,
                   visited, posts, steps_done, impl, parked, registry_agents, registry_reply, agent_id_index, tool_loop, registry_result, history, llm_reply>>

\* node classify_intent of the keyword orchestrator
ClassifyIntentKw ==
    /\ impl = "keyword" /\ status = "running" /\ pc = "classify_intent"
    /\ visited' = Append(visited, pc)
    /\ LET c == classify_intent_kw(state.user_message)
           st == [state EXCEPT !.intent = c.intent, !.confidence = c.confidence]
       IN Follow(st, next_node_kw(pc, st))
    /\ UNCHANGED <<now, discovery_cache, posts, steps_done, impl, parked, registry_agents, registry_reply, agent_id_index, tool_loop, registry_result, history, llm_reply>>

\* an agent node of the keyword orchestrator starts: call_agent_api looks the
\* agent up in AGENTS and sends the POST
AgentNodeStartKw ==
    /\ impl = "keyword" /\ status = "running" /\ pc \in AgentNodes /\ step = "run"
    /\ visited' = Append(visited, pc)
    /\ LET agent_name == agent_name_of_kw(pc) IN
       IF agent_name \in DOMAIN AGENTS
       THEN /\ call' = Call(agent_name, AGENTS[agent_name], "static")
            /\ posts' = client_post(posts, Request(agent_name, message_of_kw(pc, state)))
            /\ step' = "post"
            /\ UNCHANGED <<status, error, steps_done>>
       ELSE /\ call' = NoCall
            /\ posts' = posts
            /\ step' = step
            /\ status' = "raised"
            /\ error' = "KeyError"
            /\ steps_done' = [steps_done EXCEPT ![pc] = "failed"]
    /\ UNCHANGED <<now, discovery_cache, pc, state, returned, impl, parked, registry_agents, registry_reply, agent_id_index, tool_loop, registry_result, history, llm_reply>>

\* the agent replies (or the POST fails), the node returns and the conditional
\* edge is followed
AgentNodeReplyKw ==
    /\ impl = "keyword" /\ status = "running" /\ pc \in AgentNodes /\ step = "post"
    /\ \E reply \in AgentReplies :
          IF reply.error # ""
          THEN /\ Raise(reply.error)
               /\ steps_done' = [steps_done EXCEPT ![pc] = "failed"]
          ELSE LET st == agent_node(pc, state, reply.body) IN
               /\ Follow(st, next_node_kw(pc, st))
               /\ steps_done' = [steps_done EXCEPT ![pc] = "ok"]
    /\ UNCHANGED <<now, discovery_cache, visited, posts, impl, parked, registry_agents, registry_reply, agent_id_index, tool_loop, registry_result, history, llm_reply>>

\* node synthesize of the keyword orchestrator, then the edge to END
SynthesizeKw ==
    /\ impl = "keyword" /\ status = "running" /\ pc = "synthesize"
    /\ visited' = Append(visited, pc)
    /\ state' = synthesize_response_node_kw(state)
    /\ pc' = "END"
    /\ UNCHANGED <<now, discovery_cache, step, status, error, call, posts,
                   steps_done, returned, impl, parked, registry_agents, registry_reply, agent_id_index, tool_loop, registry_result, history, llm_reply>>

\* One turn of a freshly started orchestrator, of either implementation. The
\* cache is empty when the turn starts, so every agent it invokes is looked up
\* in the registry; discover_agent across calls and time is SpecDir below.
Next ==
    \/ process_message
    \/ ClassifyIntent
    \/ AgentNodeStart
    \/ DiscoverAgentReply
    \/ AgentNodeReply
    \/ Synthesize
    \/ ClassifyIntentKw
    \/ AgentNodeStartKw
    \/ AgentNodeReplyKw
    \/ SynthesizeKw
    \/ Return

Spec == Init /\ [][Next]_vars

-----------------------------------------------------------------------------
(* The agent directory on its own: discover_agent called again and again, for
   any name, while the clock runs. `call` holds the call in flight or, once it
   returned, what it returned; `error` the exception it raised. *)

\* names discover_agent is called with: the three agents and a name of none
DirNames == DOMAIN FALLBACK_AGENTS \cup {s_weather}

InitDir ==
    /\ impl = "directory"
    /\ now = 0
    /\ discovery_cache = [k \in CacheKeys |-> NoEntry]
    /\ pc = "idle"
    /\ step = "run"
    /\ status = "idle"
    /\ error = ""
    /\ state = initial_state(<<>>, "")
    /\ call = NoCall
    /\ visited = <<>>
    /\ posts = <<>>
    /\ steps_done = NoSteps
    /\ returned = NoResult
    /\ history = NoHistory
    /\ llm_reply = NoReply
    /\ parked = NoTask
    /\ registry_agents = <<>>
    /\ registry_reply = NoSearch
    /\ agent_id_index = "none"
    /\ registry_result = NoOutcome
    /\ tool_loop = NoLoop

\* a minute passes
DirTick ==
    /\ now < MaxTime
    /\ now' = now + 1
    /\ UNCHANGED <<discovery_cache, pc, step, status, error, state, call,
                   visited, posts, steps_done, returned, impl, parked, registry_agents, registry_reply, agent_id_index, tool_loop, registry_result, history, llm_reply>>

\* discover_agent(agent_name) is called for one of `names`: it returns the
\* cached descriptor or awaits the registry
DirCallOf(names) ==
    /\ step = "run"
    /\ \E agent_name \in names :
          IF CacheHit(discovery_cache, agent_name, now)
          THEN /\ call' = Call(agent_name, discovery_cache[agent_name].agent, "cache")
               /\ step' = "run"
               /\ history' = CallEnded(CallMade(history, agent_name, now), agent_name,
                                       discovery_cache[agent_name].agent, "cache", now)
          ELSE /\ call' = Call(agent_name, NoAgent, "")
               /\ step' = "lookup"
               /\ history' = CallMade(history, agent_name, now)
    /\ error' = ""
    /\ UNCHANGED <<now, discovery_cache, pc, status, state, visited, posts,
                   steps_done, returned, impl, parked, registry_agents, registry_reply, agent_id_index, tool_loop, registry_result, llm_reply>>

DirCall == DirCallOf(DirNames)

\* the registry replies (or the GET fails): discover_agent returns or raises
DirReply ==
    /\ step = "lookup"
    /\ \E reply \in Inputs(RegistryReplies, TwoTurnRegistryReplies) :
          LET d == discover_agent(discovery_cache, call.agent_name, reply, now) IN
          /\ discovery_cache' = d.cache
          /\ call' = Call(call.agent_name, d.agent, d.lookup)
          /\ error' = d.error
          /\ history' = CallEnded(history, call.agent_name, d.agent, d.lookup, now)
    /\ step' = "run"
    /\ UNCHANGED <<now, pc, status, state, visited, posts, steps_done, returned, impl, parked, registry_agents, registry_reply, agent_id_index, tool_loop, registry_result, llm_reply>>

NextDir ==
    \/ DirTick
    \/ DirCall
    \/ DirReply

SpecDir == InitDir /\ [][NextDir]_vars

\* the directory called again and again for one name, any name, with the last
\* two calls kept in `history`
InitCache ==
    /\ impl = "directory"
    /\ now = 0
    /\ discovery_cache = [k \in CacheKeys |-> NoEntry]
    /\ pc = "idle"
    /\ step = "run"
    /\ status = "idle"
    /\ error = ""
    /\ state = initial_state(<<>>, "")
    /\ call = NoCall
    /\ visited = <<>>
    /\ posts = <<>>
    /\ steps_done = NoSteps
    /\ returned = NoResult
    /\ \E name \in DirNames : history = History(name, 0, NoSeen, NoSeen)
    /\ llm_reply = NoReply
    /\ parked = NoTask
    /\ registry_agents = <<>>
    /\ registry_reply = NoSearch
    /\ agent_id_index = "none"
    /\ registry_result = NoOutcome
    /\ tool_loop = NoLoop

CacheCall == DirCallOf({history.name})

NextCache ==
    \/ DirTick
    \/ CacheCall
    \/ DirReply

SpecCache == InitCache /\ [][NextCache]_vars

-----------------------------------------------------------------------------
(* Cancellation: the caller cancels the task running process_message while it
   is suspended in the GET of discover_agent or the POST of call_agent_api;
   asyncio throws CancelledError into that await. *)

\* `except:` catching whatever is thrown, a cancellation too
except_everything(e) == TRUE

\* `except Exception` of discover_agent: CancelledError derives from
\* BaseException and passes through
except_Exception(e) == e # "CancelledError"

Cancel ==
    /\ impl = "llm" /\ status = "running" /\ pc \in AgentNodes
    /\ step \in {"lookup", "post"}
    /\ IF step = "lookup" /\ except_Exception("CancelledError")
       THEN \* the handler takes it for a failed lookup: fallback, then the POST
            LET fb == discover_fallback(call.agent_name) IN
            IF fb.error # ""
            THEN /\ status' = "raised"
                 /\ error' = fb.error
                 /\ call' = NoCall
                 /\ UNCHANGED <<posts, step>>
            ELSE /\ call' = Call(call.agent_name, fb.agent, "CancelledError")
                 /\ posts' = client_post(posts, Request(call.agent_name, state.user_message))
                 /\ step' = "post"
                 /\ UNCHANGED <<status, error>>
       ELSE \* nothing catches it: it leaves the node, the graph and process_message
            /\ status' = "cancelled"
            /\ error' = "CancelledError"
            /\ call' = NoCall
            /\ UNCHANGED <<posts, step>>
    /\ UNCHANGED <<now, discovery_cache, pc, state, visited, steps_done, returned,
                   impl, history, llm_reply, parked, registry_agents, registry_reply, agent_id_index, tool_loop, registry_result>>

InitCancel == Init /\ impl = "llm"

NextCancel ==
    \/ process_message
    \/ ClassifyIntent
    \/ AgentNodeStart
    \/ DiscoverAgentReply
    \/ AgentNodeReply
    \/ Synthesize
    \/ Return
    \/ Cancel

SpecCancel == InitCancel /\ [][NextCancel]_vars

-----------------------------------------------------------------------------
(* Two turns in one event loop: process_message was called twice, with
   different conversation ids, and the two coroutines take turns at their
   awaits. The variables of the turn hold the task that runs, `parked` the
   one that is suspended; the discovery cache is the module global both use. *)

\* the task that runs, as it will be found when it resumes
CurrentTask ==
    Task(pc, step, status, error, state, call, visited, posts, steps_done,
         returned, llm_reply, history.made)

\* a frame shared by the tasks: the one that resumes finds the state dict of
\* the other
resumed_shared_state(task, other) == [task EXCEPT !.state = other.state]

\* what a task finds when it resumes: the frame it left
resumed(task, other) == task

\* the task that runs is suspended and the other one resumes
Switch ==
    /\ ~parked.none
    /\ LET task == resumed(parked, CurrentTask) IN
       /\ pc' = task.pc
       /\ step' = task.step
       /\ status' = task.status
       /\ error' = task.error
       /\ state' = task.state
       /\ call' = task.call
       /\ visited' = task.visited
       /\ posts' = task.posts
       /\ steps_done' = task.steps_done
       /\ returned' = task.returned
       /\ llm_reply' = task.llm_reply
       /\ history' = [history EXCEPT !.made = task.made]
    /\ parked' = CurrentTask
    /\ UNCHANGED <<now, discovery_cache, impl, registry_agents, registry_reply, agent_id_index, tool_loop, registry_result>>

InitTwo ==
    /\ impl = "llm"
    /\ now = 0
    /\ discovery_cache = [k \in CacheKeys |-> NoEntry]
    /\ pc = "classify_intent"
    /\ step = "run"
    /\ status = "running"
    /\ error = ""
    /\ state = initial_state(m_hey, "c1")
    /\ call = NoCall
    /\ visited = <<>>
    /\ posts = <<>>
    /\ steps_done = NoSteps
    /\ returned = NoResult
    /\ history = NoHistory
    /\ llm_reply = NoReply
    /\ parked = Task("classify_intent", "run", "running", "", initial_state(m_stop, "c2"),
                     NoCall, <<>>, <<>>, NoSteps, NoResult, NoReply, 0)
    /\ registry_agents = <<>>
    /\ registry_reply = NoSearch
    /\ agent_id_index = "none"
    /\ registry_result = NoOutcome
    /\ tool_loop = NoLoop

NextTwo ==
    \/ Switch
    \/ ClassifyIntent
    \/ AgentNodeStart
    \/ DiscoverAgentReply
    \/ AgentNodeReply
    \/ Synthesize
    \/ Return

SpecTwo == InitTwo /\ [][NextTwo]_vars

-----------------------------------------------------------------------------
(* Two tasks call discover_agent for the same name, once each, at any time:
   a call that finds no valid entry is suspended in the GET while the other
   task runs. *)

InitRace ==
    /\ impl = "directory"
    /\ now = 0
    /\ discovery_cache = [k \in CacheKeys |-> NoEntry]
    /\ pc = "idle"
    /\ step = "run"
    /\ status = "idle"
    /\ error = ""
    /\ state = initial_state(<<>>, "")
    /\ call = NoCall
    /\ visited = <<>>
    /\ posts = <<>>
    /\ steps_done = NoSteps
    /\ returned = NoResult
    /\ \E name \in DirNames : history = History(name, 0, NoSeen, NoSeen)
    /\ llm_reply = NoReply
    /\ parked = Task("idle", "run", "idle", "", initial_state(<<>>, ""), NoCall,
                     <<>>, <<>>, NoSteps, NoResult, NoReply, 0)
    /\ registry_agents = <<>>
    /\ registry_reply = NoSearch
    /\ agent_id_index = "none"
    /\ registry_result = NoOutcome
    /\ tool_loop = NoLoop

\* the task that runs makes its call
RaceCall == call = NoCall /\ CacheCall

NextRace ==
    \/ DirTick
    \/ RaceCall
    \/ DirReply
    \/ Switch

SpecRace == InitRace /\ [][NextRace]_vars

-----------------------------------------------------------------------------
(* The registry server of this repository (registry-server-mcp-101): agents
   are registered, searched, and looked up by discover_agent through
   GET /search. Searches are made without a search term. *)

\* most agents registered
MaxAgents == 2

\* a document of the agents collection: agent_id and agent_url (split as
\* urlparse splits it). `registered` is what the agent was registered with;
\* the document stores neither (the capabilities go to the AgentFacts service
\* as skills, the domain into the description)
RegistryAgent(agent_id, scheme, hostname, port, capabilities, domain) ==
    [agent_id |-> agent_id,
     agent_url |-> [scheme |-> scheme, hostname |-> hostname, port |-> port],
     registered |-> [capabilities |-> capabilities, domain |-> domain]]

\* RegistryService.register_agent: insert_one, refused by MongoDB with a
\* duplicate key error when the unique index on agent_id exists and holds the
\* id already; the message of the ValueError raised ("" when none) and the
\* collection left
register_agent(collection, agent, index) ==
    IF index = "unique" /\ \E i \in 1..Len(collection) : collection[i].agent_id = agent.agent_id
    THEN [error |-> "Agent ID already exists", agents |-> collection]
    ELSE [error |-> "", agents |-> Append(collection, agent)]

\* position of the first document with the agent_id, 0 when there is none
\* (find_one, update_one and delete_one act on the first match)
first_match(collection, agent_id) ==
    IF \E i \in 1..Len(collection) : collection[i].agent_id = agent_id
    THEN CHOOSE i \in 1..Len(collection) :
            /\ collection[i].agent_id = agent_id
            /\ \A j \in 1..(i - 1) : collection[j].agent_id # agent_id
    ELSE 0

\* RegistryService.get_agent
get_agent(collection, agent_id) ==
    IF first_match(collection, agent_id) = 0
    THEN [error |-> "Agent not found", agents |-> collection]
    ELSE [error |-> "", agents |-> collection]

\* RegistryService.update_agent (url = None: agent_url is left as it is)
update_agent(collection, agent_id, url) ==
    LET i == first_match(collection, agent_id) IN
    IF i = 0
    THEN [error |-> "Agent not found", agents |-> collection]
    ELSE [error |-> "",
          agents |-> IF url.none THEN collection
                     ELSE [collection EXCEPT ![i].agent_url =
                              [scheme |-> "http", hostname |-> url.hostname, port |-> url.port]]]

\* RegistryService.delete_agent
delete_agent(collection, agent_id) ==
    LET i == first_match(collection, agent_id) IN
    IF i = 0
    THEN [error |-> "Agent not found", agents |-> collection]
    ELSE [error |-> "",
          agents |-> SubSeq(collection, 1, i - 1) \o SubSeq(collection, i + 1, Len(collection))]

\* RegistryService.__init__: create_index("agent_id", unique=True) made the
\* index, or raised (server unreachable, an index of that name with other
\* options) and the exception was printed and dropped
create_indexes ==
    /\ agent_id_index = "none"
    /\ agent_id_index' \in {"unique", "failed"}
    /\ UNCHANGED <<now, discovery_cache, pc, step, status, error, state, call,
                   visited, posts, steps_done, returned, impl, history,
                   llm_reply, parked, registry_agents, registry_reply, registry_result, tool_loop>>

\* RegistryService.search_agents(capabilities, domain, query = None): the
\* dict it returns (<<>> and "" stand for None)
search_agents(collection, capabilities, domain) ==
    LET results == collection IN
    [none |-> FALSE, capabilities |-> capabilities, domain |-> domain,
     agents |-> results, count |-> Len(results)]

\* POST /register
RegisterAgent ==
    /\ agent_id_index # "none"
    /\ Len(registry_agents) < MaxAgents
    /\ \E agent_id \in {<<"a","1">>, <<"a","2">>},
          url \in {[hostname |-> "10.0.0.1", port |-> 9001],
                   [hostname |-> "10.0.0.2", port |-> 0]},
          capabilities \in {{s_alerts}, {s_stops}},
          domain \in {"transit", "general"} :
          LET r == register_agent(registry_agents,
                                  RegistryAgent(agent_id, "http", url.hostname, url.port,
                                                capabilities, domain),
                                  agent_id_index)
          IN /\ registry_agents' = r.agents
             /\ registry_result' = Outcome("register", agent_id, r.error)
    /\ UNCHANGED <<now, discovery_cache, pc, step, status, error, state, call,
                   visited, posts, steps_done, returned, impl, history,
                   llm_reply, parked, registry_reply, agent_id_index, tool_loop>>

\* GET /lookup/{agent_id}, or the get_agent tool
GetAgent ==
    /\ agent_id_index # "none"
    /\ \E agent_id \in {<<"a","1">>, <<"a","2">>} :
          LET r == get_agent(registry_agents, agent_id)
          IN /\ registry_agents' = r.agents
             /\ registry_result' = Outcome("get", agent_id, r.error)
    /\ UNCHANGED <<now, discovery_cache, pc, step, status, error, state, call,
                   visited, posts, steps_done, returned, impl, history,
                   llm_reply, parked, registry_reply, agent_id_index, tool_loop>>

\* PUT /update/{agent_id}, or the update_agent tool
UpdateAgent ==
    /\ agent_id_index # "none"
    /\ \E agent_id \in {<<"a","1">>, <<"a","2">>},
          url \in {[none |-> TRUE, hostname |-> "", port |-> 0],
                   [none |-> FALSE, hostname |-> "10.0.0.2", port |-> 9002]} :
          LET r == update_agent(registry_agents, agent_id, url)
          IN /\ registry_agents' = r.agents
             /\ registry_result' = Outcome("update", agent_id, r.error)
    /\ UNCHANGED <<now, discovery_cache, pc, step, status, error, state, call,
                   visited, posts, steps_done, returned, impl, history,
                   llm_reply, parked, registry_reply, agent_id_index, tool_loop>>

\* DELETE /agents/{agent_id}, or the delete_agent tool
DeleteAgent ==
    /\ agent_id_index # "none"
    /\ \E agent_id \in {<<"a","1">>, <<"a","2">>} :
          LET r == delete_agent(registry_agents, agent_id)
          IN /\ registry_agents' = r.agents
             /\ registry_result' = Outcome("delete", agent_id, r.error)
    /\ UNCHANGED <<now, discovery_cache, pc, step, status, error, state, call,
                   visited, posts, steps_done, returned, impl, history,
                   llm_reply, parked, registry_reply, agent_id_index, tool_loop>>

\* GET /search of agentIndex, or the search_agents tool of agent_mcp
SearchAgents ==
    /\ \E capabilities \in {<<>>, s_alerts, s_stops},
          domain \in {"", "transit", "general"} :
          registry_reply' = search_agents(registry_agents, capabilities, domain)
    /\ UNCHANGED <<now, discovery_cache, pc, step, status, error, state, call,
                   visited, posts, steps_done, returned, impl, history,
                   llm_reply, parked, registry_agents, agent_id_index, tool_loop, registry_result>>

\* the GET of discover_agent answered by this registry: /search has no
\* `alive` parameter and ignores it; the body is the dict of search_agents
DirReplyFromRegistry ==
    /\ step = "lookup"
    /\ LET body == search_agents(registry_agents,
                                 capability_from_agent_name(call.agent_name), "")
           reply == [error |-> "", results |-> body.agents, object |-> TRUE]
           d == discover_agent(discovery_cache, call.agent_name, reply, now)
       IN /\ registry_reply' = body
          /\ discovery_cache' = d.cache
          /\ call' = Call(call.agent_name, d.agent, d.lookup)
          /\ error' = d.error
          /\ history' = CallEnded(history, call.agent_name, d.agent, d.lookup, now)
    /\ step' = "run"
    /\ UNCHANGED <<now, pc, status, state, visited, posts, steps_done, returned,
                   impl, llm_reply, parked, registry_agents, agent_id_index, tool_loop, registry_result>>

NextRegistry ==
    \/ create_indexes
    \/ RegisterAgent
    \/ SearchAgents
    \/ DirCall
    \/ DirReplyFromRegistry

SpecRegistry == InitDir /\ [][NextRegistry]_vars

\* the agents collection on its own: agents are registered, looked up,
\* updated and deleted
NextStore ==
    \/ create_indexes
    \/ RegisterAgent
    \/ GetAgent
    \/ UpdateAgent
    \/ DeleteAgent

SpecStore == InitDir /\ [][NextStore]_vars

-----------------------------------------------------------------------------
(* The example agents of the registry server (examples/02 MCPAwareAgent and
   examples/03 A2AAwareAgent): process_message and its tool-calling loop. A
   text is a sequence of pieces, "" is <<>>. The model call is taken to
   answer; its reply is any stop reason with any content. *)

\* final_text: the text of the blocks that have one, concatenated
RECURSIVE final_text(_)
final_text(content) ==
    IF content = <<>> THEN <<>>
    ELSE (IF Head(content).type = "text" THEN Head(content).text ELSE <<>>)
         \o final_text(Tail(content))

\* the code after the while loop: it reads `response`, which is bound only
\* if the loop body ran
after_loop(l) ==
    IF l.response.none
    THEN [l EXCEPT !.status = "raised", !.error = "UnboundLocalError"]
    ELSE LET text == final_text(l.response.content)
             reached == IF l.agent = "mcp"
                        THEN <<"Maximum iterations reached without completing the request.">>
                        ELSE <<"Maximum iterations reached.">>
         IN [l EXCEPT !.status = "returned",
                      !.result = IF text # <<>> THEN text ELSE reached]

\* the for loop over response.content runs on to the next tool_use block and
\* awaits its tool; past the last block the reply and the tool results are
\* appended to messages and the while loop continues
advance(l) ==
    LET content == l.response.content
        rest == {i \in l.next_block..Len(content) : content[i].type = "tool_use"}
    IN IF rest # {}
       THEN [l EXCEPT !.status = "tool", !.next_block = CHOOSE i \in rest : \A j \in rest : i <= j]
       ELSE [l EXCEPT !.status = "loop",
                      !.next_block = 0,
                      !.messages = @ \o <<[role |-> "assistant", content |-> content],
                                          [role |-> "user", content |-> l.tool_results]>>]

\* process_message(user_message, None, max_iterations) is called
AgentProcessMessage ==
    /\ tool_loop.status = "idle"
    /\ \E agent \in {"mcp", "a2a"}, max_iterations \in 0..MaxIterations :
          tool_loop' = [NoLoop EXCEPT !.status = "loop", !.agent = agent,
                                      !.max_iterations = max_iterations,
                                      !.messages = <<[role |-> "user", content |-> <<>>]>>]
    /\ UNCHANGED <<now, discovery_cache, pc, step, status, error, state, call,
                   visited, posts, steps_done, returned, impl, history, llm_reply,
                   parked, registry_agents, registry_reply, agent_id_index, registry_result>>

\* one pass of the while loop up to its first await or its exit:
\* messages.create, then the branch on stop_reason
Iterate ==
    /\ tool_loop.status = "loop"
    /\ tool_loop.iteration < tool_loop.max_iterations
    /\ \E stop_reason \in {"tool_use", "end_turn", "max_tokens"},
          kinds \in SeqsUpTo({"text", "empty_text", "get_agent", "send_a2a_message"}, MaxBlocks) :
          LET content == [i \in 1..Len(kinds) |->
                            IF kinds[i] \in {"text", "empty_text"}
                            THEN [type |-> "text", id |-> 0, name |-> "",
                                  text |-> IF kinds[i] = "text" THEN <<"ok">> ELSE <<>>]
                            ELSE [type |-> "tool_use", id |-> i, name |-> kinds[i], text |-> <<>>]]
              l == [tool_loop EXCEPT !.iteration = @ + 1,
                                     !.model_calls = @ + 1,
                                     !.response = [none |-> FALSE, stop_reason |-> stop_reason,
                                                   content |-> content],
                                     !.tool_results = <<>>,
                                     !.next_block = 1]
          IN tool_loop' =
                CASE stop_reason = "tool_use" -> advance(l)
                  [] stop_reason = "end_turn" ->
                        [l EXCEPT !.status = "returned", !.result = final_text(content)]
                  [] OTHER -> after_loop(l)
    /\ UNCHANGED <<now, discovery_cache, pc, step, status, error, state, call,
                   visited, posts, steps_done, returned, impl, history, llm_reply,
                   parked, registry_agents, registry_reply, agent_id_index, registry_result>>

\* the tool awaited answers (send_a2a_message of the A2A agent, call_tool of
\* the MCP session otherwise): a result, an empty result, or an exception;
\* each appends one tool_result
CallTool ==
    /\ tool_loop.status = "tool"
    /\ \E outcome \in {"result", "no result", "raised"} :
          LET block == tool_loop.response.content[tool_loop.next_block]
              local == tool_loop.agent = "a2a" /\ block.name = "send_a2a_message"
              tool_result == [type |-> "tool_result", tool_use_id |-> block.id,
                              content |-> IF outcome = "raised" THEN "error"
                                          ELSE IF outcome = "no result" /\ ~local
                                          THEN "error: No result from tool"
                                          ELSE "result"]
          IN tool_loop' = advance([tool_loop EXCEPT !.tool_results = Append(@, tool_result),
                                                    !.next_block = @ + 1])
    /\ UNCHANGED <<now, discovery_cache, pc, step, status, error, state, call,
                   visited, posts, steps_done, returned, impl, history, llm_reply,
                   parked, registry_agents, registry_reply, agent_id_index, registry_result>>

\* the while condition is false
LoopEnd ==
    /\ tool_loop.status = "loop"
    /\ ~(tool_loop.iteration < tool_loop.max_iterations)
    /\ tool_loop' = after_loop(tool_loop)
    /\ UNCHANGED <<now, discovery_cache, pc, step, status, error, state, call,
                   visited, posts, steps_done, returned, impl, history, llm_reply,
                   parked, registry_agents, registry_reply, agent_id_index, registry_result>>

NextLoop ==
    \/ AgentProcessMessage
    \/ Iterate
    \/ CallTool
    \/ LoopEnd

SpecLoop == InitDir /\ [][NextLoop]_vars

-----------------------------------------------------------------------------
(* The keyword classifier on its own: classify_intent_node applied to
   messages made of up to MaxWords pieces, some of them keywords of one of
   the three lists, in either letter case, some of them no keyword at all. *)

Phrases ==
    LET Pieces == {<<"D","e","l","a","y">>, kw_issue, m_route, kw_how_do_i_get,
                   m_stop, kw_near, m_hi, m_hey}
    IN {Join(ws, <<" ">>) : ws \in SeqsUpTo(Pieces, MaxWords)}

\* process_message was called with the message: the graph is at its entry point
InitClassify ==
    /\ impl = "keyword"
    /\ now = 0
    /\ discovery_cache = [k \in CacheKeys |-> NoEntry]
    /\ pc = "classify_intent"
    /\ step = "run"
    /\ status = "running"
    /\ error = ""
    /\ \E user_message \in Phrases : state = initial_state(user_message, "c1")
    /\ call = NoCall
    /\ visited = <<>>
    /\ posts = <<>>
    /\ steps_done = NoSteps
    /\ returned = NoResult
    /\ history = NoHistory
    /\ llm_reply = NoReply
    /\ parked = NoTask
    /\ registry_agents = <<>>
    /\ registry_reply = NoSearch
    /\ agent_id_index = "none"
    /\ registry_result = NoOutcome
    /\ tool_loop = NoLoop

SpecClassify == InitClassify /\ [][ClassifyIntentKw]_vars

-----------------------------------------------------------------------------
(* Properties *)

Last(seq) == seq[Len(seq)]

\* the turn ended: process_message returned or raised
Ended == status \in {"returned", "raised"}

\* agents a request was sent to in this turn, in order
Requested == [i \in 1..Len(posts) |-> posts[i].metadata.agent]

\* the routing decision held by the turn, once Classify has run
Decided == ~state.llm_routing_decision.none
Sequence == state.llm_routing_decision.agents_needed

\* the node of a canonical agent identifier
NodeOfAgent(a) ==
    CASE a = s_mbta_alerts -> "alerts"
      [] a = s_mbta_stops -> "stops"
      [] a = s_mbta_route_planner -> "planner"

CanonicalAgents == {s_mbta_alerts, s_mbta_stops, s_mbta_route_planner}

\* the edge list of the state machine
ListedEdges ==
    {<<"classify_intent", n>> : n \in {"alerts", "stops", "planner", "synthesize"}} \cup
    {<<"alerts", n>> : n \in {"stops", "planner", "synthesize"}} \cup
    {<<"stops", n>> : n \in {"planner", "synthesize"}} \cup
    {<<"planner", "synthesize">>, <<"synthesize", "END">>}

\* the turn stands at a routing point: the last node entered has returned and
\* the graph has chosen pc as the next one
AtRoutingPoint ==
    /\ status = "running"
    /\ visited # <<>>
    /\ pc # Last(visited)
    /\ Last(visited) # "synthesize"

\* C1: when the invocation of an agent fails, the turn is not aborted: a
\* result is recorded for that agent and process_message does not raise.
C1_FailedInvocationDoesNotAbort ==
    \A n \in AgentNodes :
        steps_done[n] = "failed" =>
            /\ status # "raised"
            /\ agent_name_of(n) \in Range(state.agents_called)

\* C2: every turn ends with process_message returning, after Synthesize ran
\* exactly once, as the last node.
C2_SynthesizeOnceThenReturn ==
    Ended =>
        /\ status = "returned"
        /\ Cardinality({i \in 1..Len(visited) : visited[i] = "synthesize"}) = 1
        /\ Last(visited) = "synthesize"

\* C3: in the LLM orchestrator no node is entered twice in a turn and no agent
\* is sent two requests in a turn, whatever sequence the router returned.
C3_NoNodeTwice ==
    impl = "llm" =>
        /\ \A i, j \in 1..Len(visited) : i # j => visited[i] # visited[j]
        /\ \A i, j \in 1..Len(posts) : i # j => Requested[i] # Requested[j]

\* a turn that returned although its sequence repeats an agent and lists
\* agents out of order
C3_Witness ==
    /\ impl = "llm"
    /\ status = "returned"
    /\ Decided
    /\ Sequence = <<s_mbta_stops, s_mbta_alerts, s_mbta_stops>>
    /\ Len(posts) = 1

\* the reference rule of the transition: the first entry of the sequence that
\* is not yet invoked and reachable from the current node, else Synthesize
ReferenceNext(cur, seq, invoked) ==
    LET ok == {i \in 1..Len(seq) :
                  /\ seq[i] \notin invoked
                  /\ <<cur, NodeOfAgent(seq[i])>> \in ListedEdges}
    IN IF ok = {} THEN "synthesize"
       ELSE NodeOfAgent(seq[CHOOSE i \in ok : \A j \in ok : i <= j])

\* C4 as stated: for every non-empty sequence of up to three canonical
\* identifiers, duplicates allowed, each routing decision equals the
\* reference rule.
C4_RoutingIsReferenceRule ==
    (/\ impl = "llm"
     /\ AtRoutingPoint
     /\ Sequence # <<>>
     /\ Len(Sequence) <= 3
     /\ Range(Sequence) \subseteq CanonicalAgents)
    => pc = ReferenceNext(Last(visited), Sequence, Range(state.agents_called))

\* C4, amended: for every non-empty sequence of up to three canonical
\* identifiers, duplicates allowed, that does not start with mbta-alerts
\* twice, each routing decision equals the reference rule.
C4_RoutingIsReferenceRuleUnlessAlertsTwice ==
    (/\ impl = "llm"
     /\ AtRoutingPoint
     /\ Sequence # <<>>
     /\ Len(Sequence) <= 3
     /\ Range(Sequence) \subseteq CanonicalAgents
     /\ ~(/\ Len(Sequence) >= 2
          /\ Sequence[1] = s_mbta_alerts
          /\ Sequence[2] = s_mbta_alerts))
    => pc = ReferenceNext(Last(visited), Sequence, Range(state.agents_called))

\* the routing point after Stops of an out-of-order sequence with a repeated
\* entry, where the rule skips the invoked stops and the unreachable alerts
\* and picks the planner
C4_Witness ==
    /\ impl = "llm"
    /\ AtRoutingPoint
    /\ Sequence = <<s_mbta_stops, s_mbta_stops, s_mbta_route_planner>>
    /\ Last(visited) = "stops"
    /\ pc = "planner"

\* the six sequences the prompt of classify_with_llm permits
PermittedSequences ==
    {<<s_mbta_alerts>>, <<s_mbta_stops>>, <<s_mbta_route_planner>>,
     <<s_mbta_alerts, s_mbta_route_planner>>,
     <<s_mbta_stops, s_mbta_route_planner>>,
     <<s_mbta_alerts, s_mbta_stops, s_mbta_route_planner>>}

\* C5: for each permitted sequence, when every invocation succeeds, the
\* agents_called that process_message returns is the sequence itself.
C5_AgentsCalledIsSequence ==
    (/\ impl = "llm"
     /\ status = "returned"
     /\ Sequence \in PermittedSequences)
    => returned.agents_called = Sequence

C5_Witness ==
    /\ impl = "llm"
    /\ status = "returned"
    /\ Sequence = <<s_mbta_alerts, s_mbta_stops, s_mbta_route_planner>>
    /\ returned.agents_called = Sequence

\* C6: with the sequence [stops, planner], a request goes to the planner only
\* once the stops step has ended (in success or in failure), no request goes
\* to stops after one went to the planner, and agents_called holds at most
\* two entries.
C6_PlannerOnlyAfterStops ==
    (/\ impl = "llm"
     /\ Decided
     /\ Sequence = <<s_mbta_stops, s_mbta_route_planner>>)
    => /\ \A i \in 1..Len(posts) :
             Requested[i] = s_mbta_route_planner =>
                 /\ steps_done["stops"] \in {"ok", "failed"}
                 /\ \A j \in 1..Len(posts) : Requested[j] = s_mbta_stops => j < i
       /\ Len(state.agents_called) <= 2

C6_Witness ==
    /\ impl = "llm"
    /\ Decided
    /\ Sequence = <<s_mbta_stops, s_mbta_route_planner>>
    /\ Requested = <<s_mbta_stops, s_mbta_route_planner>>
    /\ steps_done["stops"] = "ok"

\* agent nodes entered so far in this turn
AgentsEntered == Range(visited) \cap AgentNodes

\* the turn is past its agent steps: Synthesize is next, runs or has run
PastAgents ==
    \/ status = "running" /\ pc \in {"synthesize", "END"}
    \/ status = "returned"

C8_OnlyListedEdges ==
    /\ visited # <<>> => visited[1] = "classify_intent"
    /\ \A i \in 1..(Len(visited) - 1) : <<visited[i], visited[i + 1]>> \in ListedEdges
    /\ (visited # <<>> /\ pc # Last(visited)) => <<Last(visited), pc>> \in ListedEdges

C8_Witness ==
    /\ impl = "keyword"
    /\ status = "returned"
    /\ visited = <<"classify_intent", "stops", "planner", "synthesize">>

\* ways the registry lookup of discover_agent fails
LookupFailures == RegistryFailures \cup {"ValueError"}

\* C9: for a known agent name, whenever the registry lookup fails,
\* discover_agent raises nothing and returns the static fallback descriptor
\* of that name.
C9_FallbackOnLookupFailure ==
    (/\ impl = "directory"
     /\ step = "run"
     /\ call.agent_name \in DOMAIN FALLBACK_AGENTS
     /\ call.lookup \in LookupFailures)
    => /\ error = ""
       /\ call.agent = FALLBACK_AGENTS[call.agent_name]

\* a lookup that failed while the cache held an expired entry for the name
C9_Witness ==
    /\ impl = "directory"
    /\ step = "run"
    /\ call.agent_name = s_mbta_stops
    /\ call.lookup = "TimeoutException"
    /\ discovery_cache[s_mbta_stops].present
    /\ call.agent = FALLBACK_AGENTS[s_mbta_stops]

\* C10: in the LLM orchestrator every agent name passed to discover_agent is a
\* key of FALLBACK_AGENTS, and resolution never raises.
C10_ResolvedNamesAreFallbackKeys ==
    impl = "llm" =>
        /\ call # NoCall => call.agent_name \in DOMAIN FALLBACK_AGENTS
        /\ \A i \in 1..Len(posts) : Requested[i] \in DOMAIN FALLBACK_AGENTS
        /\ (status = "raised" /\ pc \in AgentNodes) => error \in PostFailures

\* the fallback is used in a turn whose sequence holds a string that is no
\* agent name
C10_Witness ==
    /\ impl = "llm"
    /\ Decided
    /\ Sequence = <<s_alerts, s_weather>>
    /\ step = "post"
    /\ call.lookup = "ValueError"
    /\ call.agent = FALLBACK_AGENTS[s_mbta_alerts]

-----------------------------------------------------------------------------
(* The directory cache *)

\* two calls for the observed name have ended, one after the other
TwoCalls ==
    /\ impl = "directory"
    /\ history.name # <<>>
    /\ ~history.prev.none
    /\ ~history.cur.none

\* minutes between the return of the first call and the second call
Apart == history.cur.made - history.prev.time

\* C11: two successive discover_agent calls for a name made less than the TTL
\* apart, the first of which returned a descriptor, return the identical
\* descriptor and the second issues no registry request, whatever the
\* registry did; a call made once the TTL has elapsed issues a registry
\* request.
C11_SecondCallWithinTtlIsCached ==
    TwoCalls =>
        /\ (history.prev.agent # NoAgent /\ Apart < cache_ttl) =>
              /\ history.cur.agent = history.prev.agent
              /\ history.cur.lookup = "cache"
        /\ Apart >= cache_ttl => history.cur.lookup # "cache"

\* C11, amended: when a discover_agent call resolved through the registry, the
\* next call for that name made less than the TTL after it returns the
\* identical descriptor and issues no registry request; a call made once the
\* TTL has elapsed issues a registry request.
C11_SecondCallAfterRegistryIsCached ==
    TwoCalls =>
        /\ (history.prev.lookup = "registry" /\ Apart < cache_ttl) =>
              /\ history.cur.agent = history.prev.agent
              /\ history.cur.lookup = "cache"
        /\ Apart >= cache_ttl => history.cur.lookup # "cache"

\* a registry resolution followed, four minutes later, by a call served from
\* the cache
C11_Witness ==
    /\ TwoCalls
    /\ history.prev.lookup = "registry"
    /\ Apart = cache_ttl - 1
    /\ history.cur.lookup = "cache"
    /\ history.cur.agent = AgentConfig(r_agent_id, "http", "10.0.0.1", 9001)

\* C12: discover_agent never returns a cached descriptor whose age is the TTL
\* or more: a call served from the cache found an entry younger than the TTL,
\* and a call made when the entry stored by the previous call has expired
\* resolves through the registry or returns the static fallback.
C12_NoStaleDescriptor ==
    (impl = "directory" /\ history.name # <<>> /\ ~history.cur.none) =>
        LET entry == discovery_cache[history.name] IN
        /\ history.cur.lookup = "cache" =>
              /\ entry.present
              /\ entry.agent = history.cur.agent
              /\ history.cur.made - entry.time < cache_ttl
        /\ (/\ ~history.prev.none
            /\ history.prev.lookup = "registry"
            /\ Apart >= cache_ttl) =>
              \/ history.cur.lookup = "registry"
              \/ /\ history.cur.lookup \in LookupFailures
                 /\ history.name \in DOMAIN FALLBACK_AGENTS =>
                       history.cur.agent = FALLBACK_AGENTS[history.name]

\* an entry exactly as old as the TTL is passed over and the registry, then
\* failing, leaves the static fallback
C12_Witness ==
    /\ TwoCalls
    /\ history.name = s_mbta_alerts
    /\ history.prev.lookup = "registry"
    /\ Apart = cache_ttl
    /\ history.cur.lookup = "TimeoutException"
    /\ history.cur.agent = FALLBACK_AGENTS[s_mbta_alerts]
    /\ discovery_cache[s_mbta_alerts].present

-----------------------------------------------------------------------------
(* Classification *)

\* the Classify step of the LLM orchestrator has run on a chat completion
Classified == impl = "llm" /\ visited # <<>> /\ visited[1] = "classify_intent"

\* the LLM call failed: it raised or timed out, its reply was no valid JSON,
\* a required field is missing, or a field has the wrong shape
RequiredKeys == {"intent", "confidence", "agents_needed"}
ClassificationFailed ==
    \/ llm_reply.error # ""
    \/ ~(RequiredKeys \subseteq llm_reply.keys)
    \/ llm_reply.malformed # {}

\* the turn state holds the fallback decision
HoldsFallbackDecision ==
    /\ Decided
    /\ state.intent = "general"
    /\ state.llm_routing_decision.intent = "general"
    /\ Sequence = <<>>
    /\ state.confidence <= 50

\* C13: for every failed outcome of the LLM call, classify_intent_node
\* completes without raising and the turn continues with the fallback
\* decision: intent general, empty agent sequence, confidence at most 0.5.
C13_ClassificationFailureFallsBack ==
    (Classified /\ ClassificationFailed) =>
        /\ ~(status = "raised" /\ Len(visited) = 1)
        /\ HoldsFallbackDecision

\* the intents of a routing decision
DecisionIntents == {"alerts", "stop_info", "trip_planning", "general"}

\* C14: the routing decision held in the turn state after Classify has an
\* intent among alerts, stop_info, trip_planning and general, a confidence
\* within [0, 1] and a sequence of at most three canonical agent identifiers;
\* a payload that is not so never reaches routing.
C14_DecisionIsValidated ==
    (impl = "llm" /\ Decided) =>
        /\ state.llm_routing_decision.intent \in DecisionIntents
        /\ state.intent \in DecisionIntents
        /\ state.confidence \in 0..100
        /\ Len(Sequence) <= 3
        /\ Range(Sequence) \subseteq CanonicalAgents

\* C15: in both orchestrators, the result process_message returns has a final
\* response string and an intent label that are not null.
C15_ReturnsResponseAndIntent ==
    status = "returned" =>
        /\ ~returned.none
        /\ returned.intent # IntentNone

-----------------------------------------------------------------------------
(* Synthesis *)

\* the Synthesize step has run
Synthesized == pc = "END"

\* agent results that differ in what a synthesis reading them would say: no
\* result, and the results carrying a text
ResultValues ==
    {None} \cup
    {normalize_reply(b) :
        b \in {x \in ReplyBodies : "text" \in x.payload.keys /\ NonBlank(x.payload.text)}}

\* `needle` occurs in `hay`, letter case ignored
ContainsIgnoreCase(hay, needle) ==
    \E i \in 1..(Len(hay) - Len(needle) + 1) :
        \A j \in 1..Len(needle) : LowerChar(hay[i + j - 1]) = LowerChar(needle[j])

\* C16: with intent general the final response of the LLM orchestrator is one
\* of the two canned texts and is the same whatever the alerts, stops and
\* planner results of the turn are.
C16_GeneralIgnoresAgentResults ==
    (impl = "llm" /\ status = "returned" /\ state.intent = "general") =>
        /\ state.final_response \in {GREETING, CAPABILITIES}
        /\ \A a, s, p \in ResultValues :
              synthesize_response([state EXCEPT !.alerts_result = a,
                                                !.stops_result = s,
                                                !.planner_result = p])
                  = state.final_response

\* a general turn whose alerts agent was invoked and replied with a text, and
\* which answers with the greeting
C16_Witness ==
    /\ impl = "llm"
    /\ status = "returned"
    /\ state.intent = "general"
    /\ Truthy(state.alerts_result)
    /\ state.alerts_result.response = t_delays
    /\ returned.response = GREETING

\* the message holds one of the greeting keywords, in any letter case
HasGreetingKeyword(message) ==
    \E word \in {<<"h","i">>, <<"h","e","l","l","o">>, <<"h","e","y">>} :
        ContainsIgnoreCase(message, word)

\* C17: with intent general the LLM orchestrator answers with the greeting
\* exactly when the message holds hi, hello or hey in any letter case, and
\* with the capability description for every other message.
C17_GreetingIffKeyword ==
    (impl = "llm" /\ Synthesized /\ state.intent = "general") =>
        IF HasGreetingKeyword(state.user_message)
        THEN state.final_response = GREETING
        ELSE state.final_response = CAPABILITIES

\* the message "HEY" answered with the greeting
C17_Witness ==
    /\ impl = "llm"
    /\ status = "returned"
    /\ returned.intent = "general"
    /\ state.user_message = m_hey
    /\ returned.response = GREETING

\* the response text of an agent result that is present, or <<>>
TextOf(result) ==
    IF ~result.none /\ "response" \in result.keys THEN result.response ELSE <<>>

\* the texts that survive, in the order alerts, stops, planner: non-empty
\* after trimming and, for stops, not saying "couldn't"
Survivors ==
    LET texts == <<[agent |-> "alerts", text |-> TextOf(state.alerts_result)],
                   [agent |-> "stops", text |-> TextOf(state.stops_result)],
                   [agent |-> "planner", text |-> TextOf(state.planner_result)]>>
        Kept(e) == /\ NonBlank(e.text)
                   /\ e.agent = "stops" => ~ContainsIgnoreCase(e.text, s_couldnt)
        kept == SelectSeq(texts, Kept)
    IN [i \in 1..Len(kept) |-> kept[i].text]

\* C18: for a non-general intent the final response of the LLM orchestrator
\* is the join, with a blank line between them and in the order alerts,
\* stops, planner, of exactly the surviving texts.
C18_JoinOfSurvivors ==
    (impl = "llm" /\ Synthesized /\ state.intent # "general") =>
        state.final_response = Join(Survivors, BlankLine)

\* C18, amended: the same when at least one text survives; with none the
\* final response is the fixed apology.
C18_JoinOfSurvivorsIfAny ==
    (impl = "llm" /\ Synthesized /\ state.intent # "general") =>
        IF Survivors # <<>>
        THEN state.final_response = Join(Survivors, BlankLine)
        ELSE state.final_response = APOLOGY

\* alerts and stops both replied, stops saying "couldn't": the final response
\* is the alerts text alone
C18_Witness ==
    /\ impl = "llm"
    /\ status = "returned"
    /\ state.intent # "general"
    /\ TextOf(state.alerts_result) = t_delays
    /\ TextOf(state.stops_result) = t_couldnt
    /\ returned.response = t_delays

\* C19: in both orchestrators the final response is never empty, and it is
\* the fixed apology when no agent was invoked or no text survives.
C19_NeverEmpty ==
    Synthesized =>
        /\ state.final_response # <<>>
        /\ (Survivors = <<>> /\ ~(impl = "llm" /\ state.intent = "general")) =>
              state.final_response = APOLOGY

\* the result slot of a canonical agent
ResultOf(a) ==
    CASE a = s_mbta_alerts -> state.alerts_result
      [] a = s_mbta_stops -> state.stops_result
      [] a = s_mbta_route_planner -> state.planner_result

\* the agent replied with a response envelope whose payload text is usable
UsableEnvelope(a) ==
    LET result == ResultOf(a) IN
    /\ ~result.none
    /\ "payload" \in result.keys
    /\ "text" \in result.payload.keys
    /\ NonBlank(result.payload.text)
    /\ a = s_mbta_stops => ~ContainsIgnoreCase(result.payload.text, s_couldnt)

\* C20: a non-general decision with a one-agent sequence whose agent replies
\* with a response envelope of usable text T makes process_message return
\* T exactly, with agents_called holding that agent alone.
C20_SingleAgentEndToEnd ==
    (/\ impl = "llm"
     /\ Ended
     /\ Decided
     /\ state.intent # "general"
     /\ Len(Sequence) = 1
     /\ Sequence[1] \in CanonicalAgents
     /\ UsableEnvelope(Sequence[1]))
    => /\ status = "returned"
       /\ returned.response = ResultOf(Sequence[1]).payload.text
       /\ returned.agents_called = Sequence

\* the stops agent alone, answering with a text
C20_Witness ==
    /\ impl = "llm"
    /\ status = "returned"
    /\ returned.intent = "stop_info"
    /\ Sequence = <<s_mbta_stops>>
    /\ UsableEnvelope(s_mbta_stops)
    /\ returned.response = t_delays
    /\ returned.agents_called = <<s_mbta_stops>>

-----------------------------------------------------------------------------
(* The Invoker: call_agent_api *)

\* C21: in both orchestrators an agent result never is the un-normalised
\* response envelope: a reply of type "response" with a payload is held as
\* its payload together with payload.text as the response text, every other
\* parsed body as it came.
C21_ReplyIsNormalized ==
    \A a \in CanonicalAgents :
        LET result == ResultOf(a) IN
        ~result.none =>
            /\ ~("type" \in result.keys /\ result.type = "response"
                   /\ "payload" \in result.keys)
            /\ "payload" \in result.keys =>
                  /\ "response" \in result.keys
                  /\ result.response = get_text(result.payload, <<>>)

\* C23: every request sent during a turn carries the conversation id and the
\* message of the turn that issued it.
C23_RequestCarriesConversationId ==
    \A i \in 1..Len(posts) :
        /\ posts[i].payload.conversation_id = state.conversation_id
        /\ posts[i].payload.message = state.user_message

\* C27: in the LLM orchestrator, for a non-empty agent sequence of strings,
\* every identifier in agents_called is an entry of the sequence.
C27_CalledAreSequenceEntries ==
    (/\ impl = "llm"
     /\ Decided
     /\ Sequence \in SeqsUpTo(AgentStrings, MaxSeqLen)
     /\ Sequence # <<>>)
    => Range(state.agents_called) \subseteq Range(Sequence)

\* agent nodes entered so far, in order
Entered == SelectSeq(visited, LAMBDA n : n \in AgentNodes)

\* the agent node entered last still awaits the registry: no POST yet
AwaitsLookup == status = "running" /\ pc \in AgentNodes /\ step = "lookup"

\* C22: each invocation of an agent sends exactly one POST, to that agent; a
\* non-2xx answer leaves process_message as HTTPStatusError with no result
\* for that agent and nothing returned.
C22_OnePostNoRetry ==
    /\ Len(posts) = Len(Entered) - (IF AwaitsLookup THEN 1 ELSE 0)
    /\ \A i \in 1..Len(posts) : NodeOfAgent(posts[i].metadata.agent) = Entered[i]
    /\ (status = "raised" /\ error = "HTTPStatusError") =>
          /\ pc \in AgentNodes
          /\ steps_done[pc] = "failed"
          /\ state[pc \o "_result"].none
          /\ returned.none

\* the second agent of a turn answered 503 after the first had answered: two
\* requests were sent, one to each
C22_Witness ==
    /\ status = "raised"
    /\ error = "HTTPStatusError"
    /\ Len(Entered) = 2
    /\ Len(posts) = 2
    /\ ~state[Entered[1] \o "_result"].none
    /\ state[Entered[2] \o "_result"].none

\* the message the i-th request of the turn must carry
ExpectedMessage(i) ==
    IF impl = "keyword" /\ posts[i].metadata.agent = s_mbta_route_planner
          /\ ~state.stops_result.none
    THEN state.user_message \o s_context_note
    ELSE state.user_message

-----------------------------------------------------------------------------
(* Cancellation *)

\* C28: a cancellation delivered while a registry lookup or an agent request
\* is in flight ends the turn there: it is never taken for a failed lookup,
\* the step that cancels writes neither the cache nor the turn, sends nothing
\* and enters no node, no step follows it, and nothing is returned.
C28_CancelledLeavesNothing ==
    /\ [](call.lookup # "CancelledError")
    /\ [](status = "cancelled" => (error = "CancelledError" /\ returned.none))
    /\ [][status' = "cancelled" =>
            /\ status = "running" /\ step \in {"lookup", "post"}
            /\ discovery_cache' = discovery_cache
            /\ posts' = posts
            /\ visited' = visited
            /\ state' = state]_vars
    /\ [][status # "cancelled"]_vars

\* cancelled during the registry lookup of the second agent: the first agent
\* was discovered and answered, the second got no request and no cache entry
C28_Witness ==
    /\ status = "cancelled"
    /\ step = "lookup"
    /\ visited = <<"classify_intent", "alerts", "stops">>
    /\ Len(posts) = 1
    /\ discovery_cache[s_mbta_alerts] # NoEntry
    /\ discovery_cache[s_mbta_stops] = NoEntry
    /\ ~state.alerts_result.none

-----------------------------------------------------------------------------
(* Concurrency *)

\* a turn run on its own from `node` with the state `st`: how it ends
RECURSIVE RunAlone(_, _)
RunAlone(node, st) ==
    IF node = "KeyError"
    THEN [status |-> "raised", error |-> "KeyError", state |-> st]
    ELSE IF node = "synthesize"
    THEN [status |-> "returned", error |-> "", state |-> synthesize_response_node(st)]
    ELSE LET answer == agent_answer(Request(agent_name_of(node), st.user_message)) IN
         IF answer.error # ""
         THEN [status |-> "raised", error |-> answer.error, state |-> st]
         ELSE LET after == agent_node(node, st, normalize_reply(answer.body)) IN
              RunAlone(next_node(node, after), after)

\* how the turn of `task` ends when no other turn runs: from its message, its
\* conversation id and the completion it was given
AloneOutcome(task) ==
    LET st == initial_state(task.state.user_message, task.state.conversation_id)
        r == classify_intent_node(st, task.llm_reply)
    IN IF r.error # ""
       THEN [status |-> "raised", error |-> r.error, state |-> st]
       ELSE RunAlone(next_node("classify_intent", r.state), r.state)

\* a turn that ended has the outcome it has when run alone
IsolatedOutcome(task) ==
    task.status \in {"returned", "raised"} =>
        LET alone == AloneOutcome(task) IN
        /\ task.status = alone.status
        /\ task.error = alone.error
        /\ task.state = alone.state
        /\ task.returned = IF alone.status = "returned" THEN Result(alone.state)
                           ELSE NoResult

\* C25: of two turns processed concurrently each ends, under every
\* interleaving, with the intent, agents_called, agent results and final
\* response it has when run alone, and no step of the turn that runs changes
\* the suspended one.
C25_TurnsAreIsolated ==
    /\ [](~parked.none => (IsolatedOutcome(CurrentTask) /\ IsolatedOutcome(parked)))
    /\ [][parked' = parked \/ (parked' = CurrentTask /\ CurrentTask' = parked)]_vars

\* both turns returned, each with the answers to its own message, after both
\* had the stops agent resolved through the shared cache
C25_Witness ==
    /\ status = "returned"
    /\ parked.status = "returned"
    /\ state.conversation_id = "c1"
    /\ returned.agents_called = <<s_mbta_stops>>
    /\ returned.response = s_mbta_stops \o m_hey
    /\ parked.returned.agents_called = <<s_mbta_alerts, s_mbta_stops>>
    /\ parked.returned.response =
          Join(<<s_mbta_alerts \o m_stop, s_mbta_stops \o m_stop>>, BlankLine)
    /\ discovery_cache[s_mbta_stops] # NoEntry

\* both tasks made their discover_agent call, both calls found no valid
\* cache entry, and both have ended
BothMissed ==
    /\ ~parked.none
    /\ step = "run" /\ call.lookup \notin {"", "cache"}
    /\ parked.step = "run" /\ parked.call.lookup \notin {"", "cache"}

\* the call ended with a usable descriptor: the one the registry named, or
\* the static fallback for the name
UsableDescriptor(c, e) ==
    /\ e = ""
    /\ c.agent # NoAgent
    /\ c.lookup # "registry" =>
          (c.agent_name \in DOMAIN FALLBACK_AGENTS /\ c.agent = FALLBACK_AGENTS[c.agent_name])

\* the (descriptor, timestamp) pair written by the last call whose registry
\* lookup succeeded, of the two calls that ended
LastWritten ==
    IF history.cur.lookup = "registry"
    THEN CacheEntry(history.cur.agent, history.cur.time)
    ELSE IF history.prev.lookup = "registry"
    THEN CacheEntry(history.prev.agent, history.prev.time)
    ELSE NoEntry

-----------------------------------------------------------------------------
(* The registry server *)

\* C29: every agent a search returns has the capability and is in the domain
\* searched for, and the count returned is the number of agents returned.
C29_SearchFilters ==
    ~registry_reply.none =>
        /\ \A i \in 1..Len(registry_reply.agents) :
              LET agent == registry_reply.agents[i] IN
              /\ registry_reply.capabilities # <<>> =>
                    registry_reply.capabilities \in agent.registered.capabilities
              /\ registry_reply.domain # "" =>
                    agent.registered.domain = registry_reply.domain
        /\ registry_reply.count = Len(registry_reply.agents)

\* C30: with an agent registered at this registry, the discover_agent call
\* for one of the three agent names whose GET /search it answers returns the
\* descriptor built from the first agent's agent_url and stores it in the
\* cache with the current time.
C30_DiscoversFromRegistry ==
    [][(/\ step = "lookup" /\ step' = "run"
        /\ call.agent_name \in DOMAIN FALLBACK_AGENTS
        /\ registry_agents # <<>>) =>
          LET first == registry_agents[1] IN
          /\ call'.lookup = "registry"
          /\ call'.agent = AgentConfig(first.agent_id, first.agent_url.scheme,
                                       first.agent_url.hostname,
                                       IF first.agent_url.port # 0
                                       THEN first.agent_url.port ELSE 80)
          /\ discovery_cache'[call.agent_name] = CacheEntry(call'.agent, now)]_vars

-----------------------------------------------------------------------------
(* The discovery cache as a side effect *)

\* C31: a step of discover_agent changes at most the cache entry of the name
\* it was called with, and only by storing the descriptor its own registry
\* lookup gave, with the current time; a cache hit and a fallback leave the
\* whole cache as it was, and no entry is ever removed.
C31_CacheFrame ==
    [][/\ \A k \in CacheKeys :
             discovery_cache'[k] # discovery_cache[k] =>
                 /\ step = "lookup"
                 /\ k = call.agent_name
                 /\ call'.lookup = "registry"
                 /\ discovery_cache'[k] = CacheEntry(call'.agent, now)
       /\ \A k \in CacheKeys :
             discovery_cache[k] # NoEntry => discovery_cache'[k] # NoEntry]_vars

\* a call for one name fell back while another name is cached: the fallback
\* was not stored and the other entry is still there
C31_Witness ==
    /\ impl = "directory"
    /\ step = "run"
    /\ call.agent_name = s_mbta_stops
    /\ call.lookup \in LookupFailures
    /\ call.agent = FALLBACK_AGENTS[s_mbta_stops]
    /\ discovery_cache[s_mbta_stops] = NoEntry
    /\ discovery_cache[s_mbta_alerts] # NoEntry

-----------------------------------------------------------------------------
(* The keyword orchestrator *)

\* C32: in the keyword orchestrator a turn classified general invokes
\* alerts, stops and planner before Synthesize.
C32_GeneralCallsAllAgents ==
    (impl = "keyword" /\ Synthesized /\ state.intent = "general") =>
        state.agents_called = <<s_mbta_alerts, s_mbta_stops, s_mbta_route_planner>>

\* C33: in the keyword orchestrator a turn that reaches Synthesize has
\* invoked exactly alerts for intent alerts, exactly stops for stop_info and
\* exactly stops then planner for trip_planning; the request to the planner
\* is sent only after the stops step has completed with a result.
C33_AgentsByIntent ==
    impl = "keyword" =>
        /\ Synthesized =>
              /\ state.intent = "alerts" => state.agents_called = <<s_mbta_alerts>>
              /\ state.intent = "stop_info" => state.agents_called = <<s_mbta_stops>>
              /\ state.intent = "trip_planning" =>
                    state.agents_called = <<s_mbta_stops, s_mbta_route_planner>>
        /\ \A i \in 1..Len(posts) :
              posts[i].metadata.agent = s_mbta_route_planner =>
                  /\ i > 1
                  /\ posts[i - 1].metadata.agent = s_mbta_stops
                  /\ steps_done["stops"] = "ok"
                  /\ ~state.stops_result.none
                  /\ state.agents_called[1] = s_mbta_stops

\* a trip-planning turn of the keyword orchestrator returned after stops and
\* planner, in that order
C33_Witness ==
    /\ impl = "keyword"
    /\ status = "returned"
    /\ returned.intent = "trip_planning"
    /\ visited = <<"classify_intent", "stops", "planner", "synthesize">>
    /\ returned.agents_called = <<s_mbta_stops, s_mbta_route_planner>>

\* a keyword of the list occurs in the message, letter case ignored
HasKeyword(message, keywords) == \E word \in keywords : ContainsIgnoreCase(message, word)

AlertsKeywords == {kw_alert, m_delay, kw_issue, kw_problem}
TripKeywords == {kw_how_do_i_get, m_route, kw_directions, kw_travel}
StopKeywords == {kw_stop, kw_station, kw_find, kw_near}

\* the intent the precedence alerts, trip planning, stop, general gives
IntentByPrecedence(message) ==
    IF HasKeyword(message, AlertsKeywords) THEN "alerts"
    ELSE IF HasKeyword(message, TripKeywords) THEN "trip_planning"
    ELSE IF HasKeyword(message, StopKeywords) THEN "stop_info"
    ELSE "general"

\* C34: the keyword classifier classifies every message, and always the same
\* way: alerts if an alerts keyword occurs, whatever else occurs; otherwise
\* trip_planning if a trip-planning keyword occurs; otherwise stop_info if a
\* stop keyword occurs; otherwise general. The intent is one of these four
\* labels and the confidence lies in [0, 1] (0..100 hundredths).
C34_ClassifierPrecedence ==
    impl = "keyword" =>
        /\ (status = "running" /\ pc = "classify_intent") => ENABLED ClassifyIntentKw
        /\ (status = "running" /\ visited # <<>>) =>
              /\ state.intent = IntentByPrecedence(state.user_message)
              /\ state.intent \in {"alerts", "trip_planning", "stop_info", "general"}
              /\ state.confidence \in 0..100

\* a message with a trip-planning, a stop and an alerts keyword, in that
\* order, was classified alerts
C34_Witness ==
    /\ impl = "keyword"
    /\ visited = <<"classify_intent">>
    /\ state.user_message = Join(<<m_route, m_stop, <<"D","e","l","a","y">>>>, <<" ">>)
    /\ state.intent = "alerts"

-----------------------------------------------------------------------------
(* The fallback decision *)

\* C35: in the LLM orchestrator a turn whose classification failed and that
\* holds the fallback decision goes from Classify straight to Synthesize: no
\* agent node is entered, no registry lookup and no agent request is made,
\* agents_called stays empty up to the returned result, and the response
\* returned is the greeting or the capabilities text.
C35_FallbackSkipsAgents ==
    (impl = "llm" /\ ClassificationFailed /\ HoldsFallbackDecision) =>
        /\ visited \in {<<"classify_intent">>, <<"classify_intent", "synthesize">>}
        /\ pc \in {"synthesize", "END"}
        /\ call = NoCall
        /\ posts = <<>>
        /\ \A k \in CacheKeys : discovery_cache[k] = NoEntry
        /\ state.agents_called = <<>>
        /\ status = "returned" =>
              /\ returned.agents_called = <<>>
              /\ returned.intent = "general"
              /\ returned.response \in {GREETING, CAPABILITIES}

\* the LLM call raised, and the turn returned the capabilities text with no
\* agent invoked
C35_Witness ==
    /\ impl = "llm"
    /\ llm_reply.error # ""
    /\ HoldsFallbackDecision
    /\ status = "returned"
    /\ visited = <<"classify_intent", "synthesize">>
    /\ returned.agents_called = <<>>
    /\ returned.response = CAPABILITIES

-----------------------------------------------------------------------------
(* The invoked list *)

\* position of the agent in the order alerts, stops, planner
Rank(a) ==
    CASE a = s_mbta_alerts -> 1
      [] a = s_mbta_stops -> 2
      [] a = s_mbta_route_planner -> 3

\* C36: in both orchestrators, in every state of a turn, agents_called has no
\* duplicate and lists canonical agents in the order alerts, stops, planner;
\* an agent's result slot is non-null only if the agent is in agents_called;
\* and a step appends an agent to agents_called exactly when it is the step
\* in which that agent's node completes and its result slot is written.
C36_CalledMatchesResults ==
    /\ [](/\ \A i \in 1..Len(state.agents_called) : state.agents_called[i] \in CanonicalAgents
          /\ \A i, j \in 1..Len(state.agents_called) :
                i < j => Rank(state.agents_called[i]) < Rank(state.agents_called[j])
          /\ \A a \in CanonicalAgents :
                ~ResultOf(a).none => a \in Range(state.agents_called))
    /\ [][status = "running" =>
            /\ state'.agents_called # state.agents_called =>
                  \E a \in CanonicalAgents :
                      /\ state'.agents_called = Append(state.agents_called, a)
                      /\ pc = NodeOfAgent(a)
                      /\ steps_done[pc] # "ok" /\ steps_done'[pc] = "ok"
            /\ \A a \in CanonicalAgents :
                  (steps_done[NodeOfAgent(a)] # "ok" /\ steps_done'[NodeOfAgent(a)] = "ok") =>
                      state'.agents_called = Append(state.agents_called, a)
            /\ \A a \in CanonicalAgents :
                  ResultOf(a)' # ResultOf(a) =>
                      state'.agents_called = Append(state.agents_called, a)]_vars

\* a turn of the LLM orchestrator returned after all three agents, each with
\* a result
C36_Witness ==
    /\ impl = "llm"
    /\ status = "returned"
    /\ state.agents_called = <<s_mbta_alerts, s_mbta_stops, s_mbta_route_planner>>
    /\ \A a \in CanonicalAgents : ~ResultOf(a).none

-----------------------------------------------------------------------------
(* The agents collection of the registry server *)

\* the agent_id is that of a stored document
Stored(collection, agent_id) == \E i \in 1..Len(collection) : collection[i].agent_id = agent_id

\* the step is a call of the registry service
ServiceCall(op) ==
    /\ registry_result'.op = op
    /\ registry_result' # registry_result \/ registry_agents' # registry_agents

\* C37: registering an agent_id that is already registered is rejected with
\* "Agent ID already exists" (HTTP 400 on the REST endpoint, status error from
\* the MCP tool) and leaves the stored agents unchanged; and whatever was
\* registered, updated and deleted, no two stored agents share an agent_id.
C37_AgentIdsAreUnique ==
    /\ [](\A i, j \in 1..Len(registry_agents) :
             registry_agents[i].agent_id = registry_agents[j].agent_id => i = j)
    /\ [][(ServiceCall("register") /\ Stored(registry_agents, registry_result'.agent_id)) =>
            /\ registry_result'.error = "Agent ID already exists"
            /\ registry_result'.rest = 400
            /\ registry_result'.mcp = "error"
            /\ registry_agents' = registry_agents]_vars

\* C38: get_agent, update_agent and delete_agent on an agent_id that is not
\* registered fail with "Agent not found" (HTTP 404, status error from the MCP
\* tool) and leave the registry unchanged; after a successful delete_agent(id)
\* the id is not registered, and stays so until it is registered again, so
\* that get_agent(id) fails until then.
C38_NotFoundAndGoneAfterDelete ==
    [][/\ \A op \in {"get", "update", "delete"} :
             (ServiceCall(op) /\ ~Stored(registry_agents, registry_result'.agent_id)) =>
                 /\ registry_result'.error = "Agent not found"
                 /\ registry_result'.rest = 404
                 /\ registry_result'.mcp = "error"
                 /\ registry_agents' = registry_agents
       /\ (ServiceCall("delete") /\ registry_result'.error = "") =>
              ~Stored(registry_agents', registry_result'.agent_id)
       /\ \A id \in {<<"a","1">>, <<"a","2">>} :
              (~Stored(registry_agents, id) /\ Stored(registry_agents', id)) =>
                  (ServiceCall("register") /\ registry_result'.agent_id = id
                   /\ registry_result'.error = "")]_vars

-----------------------------------------------------------------------------
(* The tool-calling loop of the example agents *)

\* the ids of the tool_use blocks of a reply, in order
ToolUseIds(content) ==
    LET uses == SelectSeq(content, LAMBDA b : b.type = "tool_use")
    IN [i \in 1..Len(uses) |-> uses[i].id]

\* the tool_use_ids of a list of tool results, in order
ToolResultIds(tool_results) == [i \in 1..Len(tool_results) |-> tool_results[i].tool_use_id]

\* C39: for every max_iterations, process_message of the example agents
\* makes at most max_iterations model calls and ends by returning a string,
\* never by raising; it returns in the step in which a reply with stop reason
\* end_turn arrives; and each reply that requested tools is followed in
\* messages by exactly one tool result per tool use, in the same order,
\* whatever the outcome of each tool call.
C39_LoopBoundedAndOrdered ==
    /\ tool_loop.model_calls <= tool_loop.max_iterations
    /\ tool_loop.status # "raised"
    /\ (tool_loop.status = "loop" /\ tool_loop.iteration >= tool_loop.max_iterations) =>
          after_loop(tool_loop).status = "returned"
    /\ (~tool_loop.response.none /\ tool_loop.response.stop_reason = "end_turn") =>
          tool_loop.status = "returned"
    /\ \A k \in 2..Len(tool_loop.messages) :
          tool_loop.messages[k].role = "user" =>
              /\ tool_loop.messages[k - 1].role = "assistant"
              /\ ToolResultIds(tool_loop.messages[k].content) =
                     ToolUseIds(tool_loop.messages[k - 1].content)

====
